---- MODULE Spec2Model ----
(***************************************************************************)
(* Copy-trading bot (Python-Version): the order-execution state machine of *)
(* utils/post_order.py driven by the executor loop of                      *)
(* services/trade_executor.py, with the monitor of                         *)
(* services/trade_monitor.py inserting trade records concurrently.         *)
(*                                                                         *)
(* Python floats are modelled as exact rationals <<n, d>> (d > 0, lowest   *)
(* terms), so that sums, products and quotients are computed, not assumed. *)
(***************************************************************************)
EXTENDS Integers, Sequences, FiniteSets, TLC

(***************************************************************************)
(* Rational arithmetic                                                     *)
(***************************************************************************)
Abs(x) == IF x < 0 THEN -x ELSE x

RECURSIVE GCD(_, _)
GCD(a, b) == IF b = 0 THEN a ELSE GCD(b, a % b)

Reduce(n, d, g) == IF d < 0 THEN <<(-n) \div g, (-d) \div g>> ELSE <<n \div g, d \div g>>

Rat(n, d) == Reduce(n, d, GCD(Abs(n), Abs(d)))

Zero == <<0, 1>>
One == <<1, 1>>
Int2Rat(n) == <<n, 1>>

RAdd(a, b) == Rat(a[1] * b[2] + b[1] * a[2], a[2] * b[2])
RSub(a, b) == Rat(a[1] * b[2] - b[1] * a[2], a[2] * b[2])
RMul(a, b) == Rat(a[1] * b[1], a[2] * b[2])
RDiv(a, b) == Rat(a[1] * b[2], a[2] * b[1])
RLt(a, b) == a[1] * b[2] < b[1] * a[2]
RLe(a, b) == a[1] * b[2] <= b[1] * a[2]
RGt(a, b) == RLt(b, a)
RGe(a, b) == RLe(b, a)
RMin(a, b) == IF RLe(a, b) THEN a ELSE b
RMax(a, b) == IF RGe(a, b) THEN a ELSE b

RECURSIVE RSum(_)
RSum(s) == IF s = <<>> THEN Zero ELSE RAdd(Head(s), RSum(Tail(s)))

(***************************************************************************)
(* Values that Python leaves out: None, a missing dictionary key.          *)
(***************************************************************************)
None == <<>>

\* Python truthiness of an optional float: None and 0.0 are both falsy.
Falsy(x) == x = None \/ x = Zero

(***************************************************************************)
(* config/copy_strategy.py                                                 *)
(***************************************************************************)
lerp(a, b, t) == RAdd(a, RMul(RSub(b, a), RMax(Zero, RMin(One, t))))

\* An interpolation above the threshold that does not start at the threshold.
calculate_adaptive_percent_from_zero(config, trader_order_size) ==
    LET min_percent == IF Falsy(config.adaptiveMinPercent)
                       THEN config.copySize ELSE config.adaptiveMinPercent
        max_percent == IF Falsy(config.adaptiveMaxPercent)
                       THEN config.copySize ELSE config.adaptiveMaxPercent
        threshold == IF Falsy(config.adaptiveThreshold)
                     THEN Int2Rat(500) ELSE config.adaptiveThreshold
    IN  IF RGe(trader_order_size, threshold)
        THEN lerp(config.copySize, min_percent,
                  RMin(One, RDiv(trader_order_size, threshold)))
        ELSE lerp(max_percent, config.copySize,
                  RDiv(trader_order_size, threshold))

calculate_adaptive_percent(config, trader_order_size) ==
    LET min_percent == IF Falsy(config.adaptiveMinPercent)
                       THEN config.copySize ELSE config.adaptiveMinPercent
        max_percent == IF Falsy(config.adaptiveMaxPercent)
                       THEN config.copySize ELSE config.adaptiveMaxPercent
        threshold == IF Falsy(config.adaptiveThreshold)
                     THEN Int2Rat(500) ELSE config.adaptiveThreshold
    IN  IF RGe(trader_order_size, threshold)
        THEN lerp(config.copySize, min_percent,
                  RMin(One, RSub(RDiv(trader_order_size, threshold), One)))
        ELSE lerp(max_percent, config.copySize,
                  RDiv(trader_order_size, threshold))

\* The scan of the tier list: the first tier that contains the order size,
\* else the last tier's multiplier.
RECURSIVE TierScan(_, _, _)
TierScan(tiers, i, trader_order_size) ==
    IF i > Len(tiers) THEN tiers[Len(tiers)].multiplier
    ELSE IF /\ RGe(trader_order_size, tiers[i].min)
            /\ (tiers[i].max = None \/ RLt(trader_order_size, tiers[i].max))
         THEN tiers[i].multiplier
         ELSE TierScan(tiers, i + 1, trader_order_size)

\* A resolver that prefers the single multiplier to the tiers.
get_trade_multiplier_single_first(config, trader_order_size) ==
    IF config.tradeMultiplier # None THEN config.tradeMultiplier
    ELSE IF Len(config.tieredMultipliers) > 0
    THEN TierScan(config.tieredMultipliers, 1, trader_order_size)
    ELSE One

get_trade_multiplier(config, trader_order_size) ==
    IF Len(config.tieredMultipliers) > 0
    THEN TierScan(config.tieredMultipliers, 1, trader_order_size)
    ELSE IF config.tradeMultiplier # None THEN config.tradeMultiplier
    ELSE One

BaseAmount(config, trader_order_size) ==
    CASE config.strategy = "PERCENTAGE" ->
            RMul(trader_order_size, RDiv(config.copySize, Int2Rat(100)))
      [] config.strategy = "FIXED" -> config.copySize
      [] config.strategy = "ADAPTIVE" ->
            RMul(trader_order_size,
                 RDiv(calculate_adaptive_percent(config, trader_order_size),
                      Int2Rat(100)))

\* A calculation that resolves the multiplier on the base amount.
StartCalculationOnBase(config, trader_order_size) ==
    [traderOrderSize |-> trader_order_size,
     baseAmount |-> BaseAmount(config, trader_order_size),
     finalAmount |-> RMul(BaseAmount(config, trader_order_size),
                          get_trade_multiplier(config,
                                               BaseAmount(config, trader_order_size))),
     strategy |-> config.strategy,
     cappedByMax |-> FALSE, reducedByBalance |-> FALSE, belowMinimum |-> FALSE]

\* Step 1 and 1.5: the base amount of the strategy times the multiplier.
StartCalculation(config, trader_order_size) ==
    [traderOrderSize |-> trader_order_size,
     baseAmount |-> BaseAmount(config, trader_order_size),
     finalAmount |-> RMul(BaseAmount(config, trader_order_size),
                          get_trade_multiplier(config, trader_order_size)),
     strategy |-> config.strategy,
     cappedByMax |-> FALSE, reducedByBalance |-> FALSE, belowMinimum |-> FALSE]

\* Step 2: maximum order size
ApplyMaxOrderSize(config, c) ==
    IF RGt(c.finalAmount, config.maxOrderSizeUSD)
    THEN [c EXCEPT !.finalAmount = config.maxOrderSizeUSD, !.cappedByMax = TRUE]
    ELSE c

\* max(0, max_position_size - current_position_size)
allowed_amount(config, current_position_size) ==
    RMax(Zero, RSub(config.maxPositionSizeUSD, current_position_size))

\* A calculation that ignores the position limit.
ApplyNoPositionLimit(config, c, current_position_size) == c

\* Step 3: maximum position size, if configured
ApplyMaxPositionSize(config, c, current_position_size) ==
    IF /\ ~Falsy(config.maxPositionSizeUSD)
       /\ RGt(RAdd(current_position_size, c.finalAmount), config.maxPositionSizeUSD)
    THEN IF RLt(allowed_amount(config, current_position_size), config.minOrderSizeUSD)
         THEN [c EXCEPT !.finalAmount = Zero]
         ELSE [c EXCEPT !.finalAmount = allowed_amount(config, current_position_size)]
    ELSE c

\* A balance check against the whole balance, without the safety buffer.
ApplyBalanceWithoutBuffer(c, available_balance) ==
    IF RGt(c.finalAmount, available_balance)
    THEN [c EXCEPT !.finalAmount = available_balance, !.reducedByBalance = TRUE]
    ELSE c

\* Step 4: available balance with the 1% safety buffer
ApplyBalance(c, available_balance) ==
    IF RGt(c.finalAmount, RMul(available_balance, <<99, 100>>))
    THEN [c EXCEPT !.finalAmount = RMul(available_balance, <<99, 100>>),
                   !.reducedByBalance = TRUE]
    ELSE c

\* A calculation that returns the amount even when it is below the minimum.
ApplyMinimumFlagOnly(config, c) ==
    IF RLt(c.finalAmount, config.minOrderSizeUSD)
    THEN [c EXCEPT !.belowMinimum = TRUE]
    ELSE c

\* Step 5: minimum order size
ApplyMinimum(config, c) ==
    IF RLt(c.finalAmount, config.minOrderSizeUSD)
    THEN [c EXCEPT !.finalAmount = Zero, !.belowMinimum = TRUE]
    ELSE c

calculate_order_size(config, trader_order_size, available_balance, current_position_size) ==
    ApplyMinimum(config,
        ApplyBalance(
            ApplyMaxPositionSize(config,
                ApplyMaxOrderSize(config, StartCalculation(config, trader_order_size)),
                current_position_size),
            available_balance))

(***************************************************************************)
(* utils/post_order.py: classification of a failed submission              *)
(*                                                                         *)
(* A message is a sequence of words; lower() maps each word to lower case. *)
(* A response field is absent, a string, a nested dictionary or some other *)
(* value.                                                                  *)
(***************************************************************************)
LowerWord(w) ==
    CASE w = "Not" -> "not"
      [] w = "NOT" -> "not"
      [] w = "Enough" -> "enough"
      [] w = "Balance" -> "balance"
      [] w = "ALLOWANCE" -> "allowance"
      [] w = "Allowance" -> "allowance"
      [] OTHER -> w

lower(message) == [i \in 1..Len(message) |-> LowerWord(message[i])]

\* needle in haystack, both sequences of words
Contains(haystack, needle) ==
    \E i \in 0..(Len(haystack) - Len(needle)) :
        \A j \in 1..Len(needle) : haystack[i + j] = needle[j]

Absent == [t |-> "absent"]
Str(m) == [t |-> "str", s |-> m]
Dict(e, m) == [t |-> "dict", error |-> e, message |-> m]
Other == [t |-> "other"]

IsStr(v) == v.t = "str"

extract_order_error(response) ==
    IF /\ response.success = Absent /\ response.error = Absent
       /\ response.errorMsg = Absent /\ response.message = Absent
    THEN None
    ELSE IF IsStr(response.error) THEN response.error.s
    ELSE IF response.error.t = "dict" /\ IsStr(response.error.error)
         THEN response.error.error.s
    ELSE IF response.error.t = "dict" /\ IsStr(response.error.message)
         THEN response.error.message.s
    ELSE IF IsStr(response.errorMsg) THEN response.errorMsg.s
    ELSE IF IsStr(response.message) THEN response.message.s
    ELSE None

\* The check made on the message as received, without lower().
is_insufficient_case_sensitive(message) ==
    IF message = None THEN FALSE
    ELSE \/ Contains(message, <<"not", "enough", "balance">>)
         \/ Contains(message, <<"allowance">>)

is_insufficient_balance_or_allowance_error(message) ==
    IF message = None THEN FALSE      \* None and "" are both falsy
    ELSE \/ Contains(lower(message), <<"not", "enough", "balance">>)
         \/ Contains(lower(message), <<"allowance">>)

\* resp.get("success") is True
Succeeded(resp) == resp.success = [t |-> "bool", b |-> TRUE]

(***************************************************************************)
(* Program constants                                                       *)
(***************************************************************************)
\* RETRY_LIMIT of the environment (1 to 10, 3 when unset)
RETRY_LIMIT == 2

\* utils/constants.py (TRADING_CONSTANTS)
MIN_ORDER_SIZE_USD == One
MIN_ORDER_SIZE_TOKENS == One
TRADE_AGGREGATION_MIN_TOTAL_USD == One
MAX_PRICE_SLIPPAGE == <<1, 20>>

(***************************************************************************)
(* Bounds and input domains                                                *)
(***************************************************************************)
MaxTrades == 2       \* records the monitor inserts
MaxHistory == 1      \* records an earlier session left in the collection
MaxGroup == 2        \* trades admitted to one group of the aggregation buffer

MaxId == MaxHistory + MaxTrades
Ids == 1..MaxId
Half == <<1, 2>>

\* The one address of USER_ADDRESSES.
USER_ADDRESS == "trader"

Activity(side, asset, usdcSize, price) ==
    [userAddress |-> USER_ADDRESS, side |-> side, asset |-> asset,
     conditionId |-> "m1",
     usdcSize |-> usdcSize, size |-> RDiv(usdcSize, price), price |-> price]

\* What the upstream activity API may report: trades in the two outcome
\* tokens of one market (size = usdcSize / price tokens).
Activities ==
    { Activity("BUY", "yes", Int2Rat(8), Half),
      Activity("BUY", "yes", Half, Half),
      Activity("SELL", "yes", Half, Half),
      Activity("SELL", "yes", Int2Rat(2), Half),
      Activity("SELL", "yes", Int2Rat(8), Half) }

Level(price, size) == [price |-> price, size |-> size]

\* Order books the transport may return for the asset.
Books ==
    { [asks |-> <<>>, bids |-> <<>>],
      [asks |-> <<Level(<<1, 4>>, Int2Rat(4))>>,
       bids |-> <<Level(Half, Int2Rat(2))>>],
      [asks |-> <<Level(One, Int2Rat(4)), Level(Half, Int2Rat(3))>>,
       bids |-> <<Level(<<1, 4>>, Int2Rat(5)), Level(Half, <<3, 2>>)>>],
      [asks |-> <<Level(One, One)>>,
       bids |-> <<Level(Half, Half)>>] }

Resp(success, error, errorMsg, message) ==
    [success |-> success, error |-> error, errorMsg |-> errorMsg, message |-> message]

Bool(b) == [t |-> "bool", b |-> b]

\* Responses the transport may return to a submission.
Responses ==
    { Resp(Bool(TRUE), Absent, Absent, Absent),
      Resp(Bool(FALSE), Str(<<"not", "enough", "balance">>), Absent, Absent),
      Resp(Absent, Dict(Absent, Str(<<"Insufficient", "ALLOWANCE">>)), Absent, Absent),
      Resp(Bool(FALSE), Other, Str(<<"Not", "Enough", "Balance", "now">>), Absent),
      Resp(Bool(FALSE), Str(<<"rate", "limited">>), Absent,
           Str(<<"not", "enough", "balance">>)),
      Resp(Bool(FALSE), Str(<<>>), Absent, Absent),
      Resp(Bool(FALSE), Absent, Absent, Str(<<"enough", "balance", "not">>)),
      Resp(Absent, Absent, Absent, Absent) }

NoPos == [present |-> FALSE, size |-> Zero, avgPrice |-> Zero]
Pos(size, avgPrice) == [present |-> TRUE, size |-> size, avgPrice |-> avgPrice]

\* Positions the data API may report for our wallet and for the trader.
MyPositions == {NoPos, Pos(Half, Half), Pos(Int2Rat(4), Half)}
UserPositions == {NoPos, Pos(Int2Rat(4), Half)}
Balances == {One, Int2Rat(10)}

Tier(min, max, multiplier) == [min |-> min, max |-> max, multiplier |-> multiplier]

Configs ==
    { [strategy |-> "PERCENTAGE", copySize |-> Int2Rat(50),
       adaptiveMinPercent |-> None, adaptiveMaxPercent |-> None,
       adaptiveThreshold |-> None,
       tieredMultipliers |-> <<Tier(Zero, Int2Rat(5), Int2Rat(2)),
                               Tier(Int2Rat(5), None, One)>>,
       tradeMultiplier |-> None,
       maxOrderSizeUSD |-> Int2Rat(3), minOrderSizeUSD |-> One,
       maxPositionSizeUSD |-> None] }

(***************************************************************************)
(* State                                                                   *)
(***************************************************************************)
VARIABLES
    db,       \* the user_activities collection: id -> TradeRecord
    pc,       \* where the executor loop is: "poll", "trading", "run"
    trades,   \* the trades read by this poll and not yet handed to post_order
    run,      \* the post_order invocation in progress, or the last one finished
    config,   \* COPY_STRATEGY_CONFIG
    runs,     \* history: how many times post_order was entered for each record
    outcomes, \* history: how the invocation of post_order for each record ended
    TRADE_AGGREGATION_ENABLED,   \* the setting of the environment
    trade_aggregation_buffer,    \* the groups, in insertion order
    ready_aggregations,          \* the groups do_aggregated_trading still has to execute
    sizing,   \* a call of calculate_order_size: its arguments and its result
    environ,  \* os.environ: the settings parse_copy_strategy reads
    clock,    \* the latest value of time.time() the executor has read
    is_running  \* _is_running of the executor and of the monitor

vars == <<db, pc, trades, run, config, runs, outcomes,
          TRADE_AGGREGATION_ENABLED, trade_aggregation_buffer, ready_aggregations,
          sizing, environ, clock, is_running>>

\* What only the aggregation mode of the executor changes.
aggregation ==
    <<TRADE_AGGREGATION_ENABLED, trade_aggregation_buffer, ready_aggregations, clock,
      is_running>>

NoRecord ==
    [present |-> FALSE, userAddress |-> USER_ADDRESS, side |-> "BUY",
     asset |-> "none", conditionId |-> "none",
     usdcSize |-> Zero, size |-> Zero,
     price |-> Zero, bot |-> FALSE, botExcutedTime |-> 0, myBoughtSize |-> None]

Record(activity, bot, botExcutedTime, myBoughtSize) ==
    [present |-> TRUE, userAddress |-> activity.userAddress,
     side |-> activity.side, asset |-> activity.asset,
     conditionId |-> activity.conditionId, usdcSize |-> activity.usdcSize,
     size |-> activity.size, price |-> activity.price,
     bot |-> bot, botExcutedTime |-> botExcutedTime, myBoughtSize |-> myBoughtSize]

\* Records of an earlier session: an executed BUY that filled 1 token, in
\* either outcome token.
HistoryRecords ==
    { Record(Activity("BUY", "yes", Int2Rat(8), Half), TRUE, 1, One),
      Record(Activity("BUY", "no", Int2Rat(8), Half), TRUE, 1, One) }

\* An invocation of post_order: where its caller is (back), its local
\* variables (cond .. myPosSize) and,
\* for the history, what it started from (target, computed, userPos,
\* ledgerBefore), what happened to its submissions (submitted: the amounts
\* accepted; filled: amount / price of each accepted order; last: the kind of
\* the response to the latest one; streak: failures since the last success
\* that were no rejections for funds; order_book: the book the latest
\* iteration fetched, None before the first fetch) and how it ended (outcome).
NoRun ==
    [phase |-> "idle", back |-> "trading", cond |-> "none", id |-> 0,
     userAddress |-> "none", asset |-> "none",
     conditionId |-> "none", price |-> Zero, usdcSize |-> Zero,
     remaining |-> Zero, retry |-> 0, abort |-> FALSE, total |-> Zero,
     totalTracked |-> Zero, prev |-> <<>>, myPosSize |-> Zero,
     target |-> Zero, computed |-> Zero, userPos |-> None,
     ledgerBefore |-> <<>>, submitted |-> Zero, filled |-> Zero,
     last |-> "none", streak |-> 0, order_book |-> None, outcome |-> "none"]

(***************************************************************************)
(* utils/post_order.py: the pieces of one invocation                       *)
(***************************************************************************)
\* min(order_book["asks"], key=price): the first level of lowest price
BestAsk(asks) ==
    LET i == CHOOSE i \in 1..Len(asks) :
                 /\ \A j \in 1..Len(asks) : RLe(asks[i].price, asks[j].price)
                 /\ \A j \in 1..(i - 1) : RLt(asks[i].price, asks[j].price)
    IN  asks[i]

\* max(order_book["bids"], key=price): the first level of highest price
BestBid(bids) ==
    LET i == CHOOSE i \in 1..Len(bids) :
                 /\ \A j \in 1..Len(bids) : RGe(bids[i].price, bids[j].price)
                 /\ \A j \in 1..(i - 1) : RGt(bids[i].price, bids[j].price)
    IN  bids[i]

\* A buy loop without the slippage guard.
SlippageUnchecked(ask, tradePrice) == FALSE

\* the slippage guard of the buy loop
SlippageTooHigh(ask, tradePrice) ==
    RGt(RSub(ask.price, MAX_PRICE_SLIPPAGE), tradePrice)

\* The order sized by the level alone, without the min with remaining.
BuyOrderSizeOfLevel(remaining, ask) == RMul(ask.size, ask.price)

\* order_size = min(remaining, ask.size * ask.price)
BuyOrderSize(remaining, ask) == RMin(remaining, RMul(ask.size, ask.price))

\* sell_amount = min(remaining, bid.size); merge: remaining if it fits, else bid.size
SellAmount(remaining, bid) == RMin(remaining, bid.size)

MergeAmount(remaining, bid) == IF RLe(remaining, bid.size) THEN remaining ELSE bid.size

\* The find() of the sell branch: executed BUY records of the same asset and
\* market that have a positive myBoughtSize; in insertion order.
IsTrackedBuy(d, id, trade) ==
    /\ d[id].present
    /\ d[id].userAddress = trade.userAddress
    /\ d[id].asset = trade.asset
    /\ d[id].conditionId = trade.conditionId
    /\ d[id].side = "BUY"
    /\ d[id].bot = TRUE
    /\ d[id].myBoughtSize # None
    /\ RGt(d[id].myBoughtSize, Zero)

RECURSIVE PreviousBuysFrom(_, _, _)
PreviousBuysFrom(d, id, trade) ==
    IF id > MaxId THEN <<>>
    ELSE (IF IsTrackedBuy(d, id, trade)
          THEN <<[id |-> id, myBoughtSize |-> d[id].myBoughtSize]>>
          ELSE <<>>) \o PreviousBuysFrom(d, id + 1, trade)

previous_buys(d, trade) == PreviousBuysFrom(d, 1, trade)

total_bought_tokens(prev) == RSum([i \in 1..Len(prev) |-> prev[i].myBoughtSize])

\* trade.size / (user_position.size + trade.size)
trader_sell_percent(trade, user_position) ==
    RDiv(trade.size, RAdd(user_position.size, trade.size))

\* The base taken from the current position even when purchases are tracked.
base_sell_size_of_position(my_position, tracked, percent) ==
    RMul(my_position.size, percent)

base_sell_size(my_position, tracked, percent) ==
    IF RGt(tracked, Zero)
    THEN RMul(tracked, percent)
    ELSE RMul(my_position.size, percent)

\* The size of a sell before the minimum check and the cap (lines 314-342).
SellSize(cfg, trade, my_position, user_position, tracked) ==
    IF ~user_position.present
    THEN my_position.size
    ELSE RMul(base_sell_size(my_position, tracked,
                             trader_sell_percent(trade, user_position)),
              get_trade_multiplier(cfg, trade.usdcSize))

\* The sell size left as computed, without the cap.
SellUncapped(remaining, my_position) == remaining

\* Cap sell amount to available position size (lines 357-362).
SellCap(remaining, my_position) ==
    IF RGt(remaining, my_position.size) THEN my_position.size ELSE remaining

\* The entry of previous_buys for a record id.
BuyOf(prev, id) == prev[CHOOSE i \in 1..Len(prev) : prev[i].id = id]

\* A ledger update that clears the tracking whatever fraction was sold.
LedgerCleared(d, trade, prev, sold, tracked) ==
    IF RGt(sold, Zero) /\ RGt(tracked, Zero)
    THEN [id \in Ids |->
            IF IsTrackedBuy(d, id, trade)
            THEN [d[id] EXCEPT !.myBoughtSize = Zero]
            ELSE d[id]]
    ELSE d

\* A ledger update that takes the tokens sold off every contributing entry.
LedgerLessSold(d, trade, prev, sold, tracked) ==
    IF RGt(sold, Zero) /\ RGt(tracked, Zero)
    THEN [id \in Ids |->
            IF \E i \in 1..Len(prev) : prev[i].id = id
            THEN [d[id] EXCEPT !.myBoughtSize = RSub(BuyOf(prev, id).myBoughtSize, sold)]
            ELSE d[id]]
    ELSE d

\* The ledger update after the sell loop (lines 419-440).
LedgerAfterSell(d, trade, prev, sold, tracked) ==
    IF RGt(sold, Zero) /\ RGt(tracked, Zero)
    THEN IF RGe(RDiv(sold, tracked), <<99, 100>>)
         THEN [id \in Ids |->
                 IF IsTrackedBuy(d, id, trade)
                 THEN [d[id] EXCEPT !.myBoughtSize = Zero]
                 ELSE d[id]]
         ELSE [id \in Ids |->
                 IF \E i \in 1..Len(prev) : prev[i].id = id
                 THEN [d[id] EXCEPT !.myBoughtSize =
                         RMul(BuyOf(prev, id).myBoughtSize,
                              RSub(One, RDiv(sold, tracked)))]
                 ELSE d[id]]
    ELSE d

\* Outcome recording after the buy loop (lines 253-281).
RecordBuyOutcome(rec, abort, retry, total) ==
    IF abort
    THEN [rec EXCEPT !.bot = TRUE, !.botExcutedTime = RETRY_LIMIT,
                     !.myBoughtSize = total]
    ELSE IF retry >= RETRY_LIMIT
    THEN [rec EXCEPT !.bot = TRUE, !.botExcutedTime = retry, !.myBoughtSize = total]
    ELSE [rec EXCEPT !.bot = TRUE, !.myBoughtSize = total]

\* A recording that leaves the processed flag alone when the run was aborted.
RecordSellOutcomeUnmarked(rec, abort, retry) ==
    IF abort
    THEN [rec EXCEPT !.botExcutedTime = RETRY_LIMIT]
    ELSE IF retry >= RETRY_LIMIT
    THEN [rec EXCEPT !.bot = TRUE, !.botExcutedTime = retry]
    ELSE [rec EXCEPT !.bot = TRUE]

\* Outcome recording after the sell loop (lines 442-455) and after the merge
\* loop (lines 146-159).
RecordSellOutcome(rec, abort, retry) ==
    IF abort
    THEN [rec EXCEPT !.bot = TRUE, !.botExcutedTime = RETRY_LIMIT]
    ELSE IF retry >= RETRY_LIMIT
    THEN [rec EXCEPT !.bot = TRUE, !.botExcutedTime = retry]
    ELSE [rec EXCEPT !.bot = TRUE]

\* What a response is, seen from outside the program: the rejections whose
\* message speaks of insufficient balance or allowance.
FundsRejections ==
    { Resp(Bool(FALSE), Str(<<"not", "enough", "balance">>), Absent, Absent),
      Resp(Absent, Dict(Absent, Str(<<"Insufficient", "ALLOWANCE">>)), Absent, Absent),
      Resp(Bool(FALSE), Other, Str(<<"Not", "Enough", "Balance", "now">>), Absent) }

Classify(resp) ==
    IF resp = Resp(Bool(TRUE), Absent, Absent, Absent) THEN "success"
    ELSE IF resp \in FundsRejections THEN "insufficient"
    ELSE "transient"

\* A loop that goes on whatever the retry count.
LoopGuardWithoutRetry(r) == RGt(r.remaining, Zero)

\* while remaining > 0 and retry < RETRY_LIMIT
LoopGuard(r) == RGt(r.remaining, Zero) /\ r.retry < RETRY_LIMIT

Break(r, outcome, mark) ==
    [r |-> [r EXCEPT !.outcome = outcome, !.last = "none"], brk |-> TRUE,
     mark |-> mark, order |-> [placed |-> FALSE, amount |-> Zero]]

\* The history of the run after a response of the given kind.
Observed(r, amount, price, kind) ==
    [r EXCEPT !.last = kind,
              !.streak = CASE kind = "success" -> 0
                           [] kind = "transient" -> @ + 1
                           [] OTHER -> @,
              !.submitted = IF kind = "success" THEN RAdd(@, amount) ELSE @,
              !.filled = IF kind = "success" THEN RAdd(@, RDiv(amount, price)) ELSE @]

\* An iteration that placed an order: the new state, whether the loop breaks,
\* and the order, reported beside the state.
Placed(r, brk, amount) ==
    [r |-> r, brk |-> brk, mark |-> "none", order |-> [placed |-> TRUE, amount |-> amount]]

\* A submission whose failures are not counted.
SubmitWithoutCounting(r, amount, price, tokens, resp) ==
    IF Succeeded(resp)
    THEN Placed([Observed(r, amount, price, Classify(resp)) EXCEPT
                    !.retry = 0,
                    !.total = RAdd(@, tokens),
                    !.remaining = RSub(@, amount)], FALSE, amount)
    ELSE IF is_insufficient_balance_or_allowance_error(extract_order_error(resp))
    THEN Placed([Observed(r, amount, price, Classify(resp)) EXCEPT
                    !.abort = TRUE, !.outcome = "aborted"], TRUE, amount)
    ELSE Placed(Observed(r, amount, price, Classify(resp)), FALSE, amount)

\* Submission of one order and the branch on its response (lines 231-251,
\* 400-416, 129-144). tokens is what a success adds to the run's total.
Submit(r, amount, price, tokens, resp) ==
    IF Succeeded(resp)
    THEN Placed([Observed(r, amount, price, Classify(resp)) EXCEPT
                    !.retry = 0,
                    !.total = RAdd(@, tokens),
                    !.remaining = RSub(@, amount)], FALSE, amount)
    ELSE IF is_insufficient_balance_or_allowance_error(extract_order_error(resp))
    THEN Placed([Observed(r, amount, price, Classify(resp)) EXCEPT
                    !.abort = TRUE, !.outcome = "aborted"], TRUE, amount)
    ELSE Placed([Observed(r, amount, price, Classify(resp)) EXCEPT !.retry = @ + 1],
                FALSE, amount)

\* The fill counted in USD, without the division by the price.
tokens_bought_as_amount(amount, price) == amount

\* tokens_bought = order_args["amount"] / order_args["price"]
tokens_bought(amount, price) == RDiv(amount, price)

BuyOrder(r, ask, order_size, resp) ==
    Submit(r, order_size, ask.price, tokens_bought(order_size, ask.price), resp)

\* The buy loop body once the lowest ask is known (lines 201-251).
BuyAtAsk(r, ask, resp) ==
    IF SlippageTooHigh(ask, r.price) THEN Break(r, "slippage", "bot")
    ELSE IF RLt(r.remaining, MIN_ORDER_SIZE_USD) THEN Break(r, "dust", "botmbs")
    ELSE BuyOrder(r, ask, BuyOrderSize(r.remaining, ask), resp)

\* One pass through the body of the buy loop (lines 195-251).
BuyIteration(r, book, resp) ==
    IF book.asks = <<>> THEN Break(r, "no_liquidity", "bot")
    ELSE BuyAtAsk(r, BestAsk(book.asks), resp)

SellOrder(r, bid, sell_amount, resp) ==
    IF RLt(sell_amount, MIN_ORDER_SIZE_TOKENS) THEN Break(r, "small_bid", "bot")
    ELSE Submit(r, sell_amount, bid.price, sell_amount, resp)

\* The sell loop body once the highest bid is known (lines 375-416).
SellAtBid(r, bid, resp) ==
    IF RLt(r.remaining, MIN_ORDER_SIZE_TOKENS) THEN Break(r, "dust", "bot")
    ELSE SellOrder(r, bid, SellAmount(r.remaining, bid), resp)

\* One pass through the body of the sell loop (lines 369-416).
SellIteration(r, book, resp) ==
    IF book.bids = <<>> THEN Break(r, "no_liquidity", "bot")
    ELSE SellAtBid(r, BestBid(book.bids), resp)

\* The merge loop body once the highest bid is known (lines 112-144).
MergeAtBid(r, bid, resp) ==
    Submit(r, MergeAmount(r.remaining, bid), bid.price, Zero, resp)

\* A merge loop that counts an empty bid side as a failed attempt.
MergeIterationRetrying(r, book, resp) ==
    IF book.bids = <<>>
    THEN [r |-> [r EXCEPT !.retry = @ + 1, !.last = "none"], brk |-> FALSE,
          mark |-> "none", order |-> [placed |-> FALSE, amount |-> Zero]]
    ELSE MergeAtBid(r, BestBid(book.bids), resp)

\* One pass through the body of the merge loop (lines 104-144).
MergeIteration(r, book, resp) ==
    IF book.bids = <<>> THEN Break(r, "no_liquidity", "bot")
    ELSE MergeAtBid(r, BestBid(book.bids), resp)

\* order_book = await clob_client.get_order_book(trade["asset"])
Fetched(r, book) == [r EXCEPT !.order_book = book]

Iteration(r, book, resp) ==
    CASE r.cond = "buy" -> BuyIteration(Fetched(r, book), book, resp)
      [] r.cond = "sell" -> SellIteration(Fetched(r, book), book, resp)
      [] r.cond = "merge" -> MergeIteration(Fetched(r, book), book, resp)

\* The update_one made inside the loop right before a break.
ApplyMark(d, r, mark) ==
    CASE mark = "none" -> d
      [] mark = "bot" -> [d EXCEPT ![r.id].bot = TRUE]
      [] mark = "botmbs" -> [d EXCEPT ![r.id].bot = TRUE, ![r.id].myBoughtSize = r.total]

\* Everything post_order does after its loop.
AfterLoop(d, r) ==
    CASE r.cond = "buy" ->
            [d EXCEPT ![r.id] = RecordBuyOutcome(@, r.abort, r.retry, r.total)]
      [] r.cond = "sell" ->
            [LedgerAfterSell(d, r, r.prev, r.total, r.totalTracked) EXCEPT
                ![r.id] = RecordSellOutcome(@, r.abort, r.retry)]
      [] r.cond = "merge" ->
            [d EXCEPT ![r.id] = RecordSellOutcome(@, r.abort, r.retry)]

ExitOutcome(r) ==
    IF r.outcome # "none" THEN r.outcome
    ELSE IF r.retry >= RETRY_LIMIT THEN "retry_exhausted"
    ELSE "target_met"

Finished(r) == [r EXCEPT !.phase = "done", !.outcome = ExitOutcome(r)]

(***************************************************************************)
(* utils/post_order.py: entry of an invocation, up to its loop             *)
(***************************************************************************)
NewRun(cond, id, trade, d) ==
    [NoRun EXCEPT !.phase = "loop", !.cond = cond, !.id = id,
                  !.userAddress = trade.userAddress,
                  !.asset = trade.asset, !.conditionId = trade.conditionId,
                  !.price = trade.price, !.usdcSize = trade.usdcSize,
                  !.ledgerBefore = [i \in Ids |-> d[i].myBoughtSize]]

Skipped(cond, id, trade, d) ==
    [NewRun(cond, id, trade, d) EXCEPT !.phase = "done", !.outcome = "skipped"]

\* my_position.size * my_position.avgPrice, 0 without a position
current_position_value(my_position) ==
    IF my_position.present THEN RMul(my_position.size, my_position.avgPrice) ELSE Zero

BuyStart(id, trade, d, order_calc) ==
    IF order_calc.finalAmount = Zero
    THEN Skipped("buy", id, trade, d)
    ELSE [NewRun("buy", id, trade, d) EXCEPT
             !.remaining = order_calc.finalAmount,
             !.target = order_calc.finalAmount]

\* The state in which post_order reaches its loop, or a finished run when it
\* returns before the loop (the record is then only marked processed).
BuyEntry(cfg, id, trade, my_position, my_balance, d) ==
    BuyStart(id, trade, d,
             calculate_order_size(cfg, trade.usdcSize, my_balance,
                                  current_position_value(my_position)))

\* A sell that enters its loop whatever the computed size.
SellStartUnchecked(id, trade, my_position, user_position, d, prev, tracked, size) ==
    [NewRun("sell", id, trade, d) EXCEPT
        !.prev = prev, !.totalTracked = tracked,
        !.myPosSize = my_position.size,
        !.computed = size,
        !.userPos = IF user_position.present THEN user_position.size ELSE None,
        !.remaining = SellCap(size, my_position),
        !.target = SellCap(size, my_position)]

SellStart(id, trade, my_position, user_position, d, prev, tracked, size) ==
    IF RLt(size, MIN_ORDER_SIZE_TOKENS)
    THEN [Skipped("sell", id, trade, d) EXCEPT
             !.prev = prev, !.totalTracked = tracked,
             !.myPosSize = my_position.size,
             !.computed = size,
             !.userPos = IF user_position.present THEN user_position.size ELSE None]
    ELSE [NewRun("sell", id, trade, d) EXCEPT
             !.prev = prev, !.totalTracked = tracked,
             !.myPosSize = my_position.size,
             !.computed = size,
             !.userPos = IF user_position.present THEN user_position.size ELSE None,
             !.remaining = SellCap(size, my_position),
             !.target = SellCap(size, my_position)]

SellSized(cfg, id, trade, my_position, user_position, d, prev, tracked) ==
    SellStart(id, trade, my_position, user_position, d, prev, tracked,
              SellSize(cfg, trade, my_position, user_position, tracked))

SellTracked(cfg, id, trade, my_position, user_position, d, prev) ==
    SellSized(cfg, id, trade, my_position, user_position, d, prev,
              total_bought_tokens(prev))

SellEntry(cfg, id, trade, my_position, user_position, d) ==
    IF ~my_position.present THEN Skipped("sell", id, trade, d)
    ELSE SellTracked(cfg, id, trade, my_position, user_position, d,
                     previous_buys(d, trade))

MergeEntry(id, trade, my_position, d) ==
    IF ~my_position.present THEN Skipped("merge", id, trade, d)
    ELSE IF RLt(my_position.size, MIN_ORDER_SIZE_TOKENS)
    THEN [Skipped("merge", id, trade, d) EXCEPT !.myPosSize = my_position.size]
    ELSE [NewRun("merge", id, trade, d) EXCEPT
             !.myPosSize = my_position.size,
             !.remaining = my_position.size, !.target = my_position.size]

Entry(cfg, cond, id, trade, my_position, user_position, my_balance, d) ==
    CASE cond = "buy" -> BuyEntry(cfg, id, trade, my_position, my_balance, d)
      [] cond = "sell" -> SellEntry(cfg, id, trade, my_position, user_position, d)
      [] cond = "merge" -> MergeEntry(id, trade, my_position, d)

\* post_order from its entry to the first order-book fetch: d is the
\* collection as the caller left it, r the run as it reaches the loop.
Entered(r, id, d) ==
    /\ runs' = [runs EXCEPT ![id] = @ + 1]
    /\ IF r.phase = "done"
       THEN /\ db' = [d EXCEPT ![id].bot = TRUE]
            /\ run' = [r EXCEPT !.back = pc]
            /\ pc' = pc
       ELSE IF LoopGuard(r)
       THEN /\ db' = d
            /\ run' = [r EXCEPT !.back = pc]
            /\ pc' = "run"
       ELSE /\ db' = AfterLoop(d, r)
            /\ run' = [Finished(r) EXCEPT !.back = pc]
            /\ pc' = pc
    /\ outcomes' = [outcomes EXCEPT ![id] = run'.outcome]

post_order(cond, id, trade, my_position, user_position, my_balance, d) ==
    Entered(Entry(config, cond, id, trade, my_position, user_position, my_balance, d),
            id, d)

\* The loop goes on, or ends and post_order runs to its return.
Iterated(res) ==
    IF res.brk \/ ~LoopGuard(res.r)
    THEN /\ db' = AfterLoop(ApplyMark(db, res.r, res.mark), res.r)
         /\ run' = Finished(res.r)
         /\ pc' = run.back
         /\ outcomes' = [outcomes EXCEPT ![res.r.id] = ExitOutcome(res.r)]
    ELSE /\ run' = res.r
         /\ pc' = "run"
         /\ db' = db
         /\ outcomes' = outcomes

\* One iteration of the loop of post_order: fetch the book, submit, branch on
\* the response; when the loop ends, everything up to the return.
post_order_step ==
    /\ pc = "run"
    /\ \E book \in Books, resp \in Responses : Iterated(Iteration(run, book, resp))
    /\ UNCHANGED <<trades, config, environ, sizing, runs, aggregation>>

(***************************************************************************)
(* services/trade_monitor.py                                               *)
(***************************************************************************)
\* fetch_trade_data: an activity whose transactionHash is new is inserted.
fetch_trade_data ==
    /\ is_running
    /\ pc # "exited"
    /\ \E id \in Ids :
          /\ ~db[id].present
          /\ \A j \in 1..(id - 1) : db[j].present
          /\ \E activity \in Activities :
                db' = [db EXCEPT ![id] = Record(activity, FALSE, 0, None)]
    /\ UNCHANGED <<pc, trades, run, config, environ, sizing, runs, outcomes, aggregation>>

(***************************************************************************)
(* services/trade_executor.py                                              *)
(***************************************************************************)
\* A find() with no filter on bot and botExcutedTime.
IsAnyRecord(rec) == rec.present

\* The find() of read_temp_trades: records not yet processed, in insertion
\* order.
IsUnprocessed(rec) == rec.present /\ rec.bot = FALSE /\ rec.botExcutedTime = 0

RECURSIVE ReadFrom(_, _)
ReadFrom(d, id) ==
    IF id > MaxId THEN <<>>
    ELSE (IF IsUnprocessed(d[id]) THEN <<id>> ELSE <<>>) \o ReadFrom(d, id + 1)

read_temp_trades(d) == ReadFrom(d, 1)

TradeOf(rec) ==
    [userAddress |-> rec.userAddress, asset |-> rec.asset, conditionId |-> rec.conditionId,
     usdcSize |-> rec.usdcSize, size |-> rec.size, price |-> rec.price]

\* A poll that does not wait for the run in progress to return.
trade_executor_poll_unawaited ==
    /\ pc \in {"poll", "run"}
    /\ is_running
    /\ read_temp_trades(db) # <<>>
    /\ trades' = read_temp_trades(db)
    /\ pc' = "trading"
    /\ UNCHANGED <<db, run, config, environ, sizing, runs, outcomes, aggregation>>

\* trade_executor: one poll that has something to do, the trades it read or,
\* with aggregation, the groups of the buffer.
trade_executor_poll ==
    /\ pc = "poll"
    /\ is_running
    /\ \/ read_temp_trades(db) # <<>>
       \/ TRADE_AGGREGATION_ENABLED /\ trade_aggregation_buffer # <<>>
    /\ trades' = read_temp_trades(db)
    /\ pc' = "trading"
    /\ UNCHANGED <<db, run, config, environ, sizing, runs, outcomes, aggregation>>

\* A test that looks at the size of the trade alone.
IsAggregatedBySize(rec) == RLt(rec.usdcSize, TRADE_AGGREGATION_MIN_TOTAL_USD)

\* Only BUY trades below the minimum total are aggregated.
IsAggregated(rec) ==
    rec.side = "BUY" /\ RLt(rec.usdcSize, TRADE_AGGREGATION_MIN_TOTAL_USD)

\* update_one({"_id": ...}, {"$set": {"botExcutedTime": 1}})
PickedUp(d, id) == [d EXCEPT ![id].botExcutedTime = 1]

\* do_trading: the next trade of the list is marked as picked up and handed
\* to post_order.
do_trading ==
    /\ pc = "trading"
    /\ trades # <<>>
    /\ ~TRADE_AGGREGATION_ENABLED \/ ~IsAggregated(db[Head(trades)])
    /\ \E my_position \in MyPositions, user_position \in UserPositions,
          my_balance \in Balances :
          post_order(IF db[Head(trades)].side = "BUY" THEN "buy" ELSE "sell",
                     Head(trades), TradeOf(db[Head(trades)]), my_position,
                     user_position, my_balance, PickedUp(db, Head(trades)))
    /\ trades' = Tail(trades)
    /\ UNCHANGED <<config, environ, sizing, aggregation>>

\* The work of this iteration is done: the executor sleeps and polls again.
trade_executor_sleep ==
    /\ \/ pc = "trading" /\ trades = <<>> /\ ~TRADE_AGGREGATION_ENABLED
       \/ pc = "aggregated" /\ ready_aggregations = <<>>
    /\ pc' = IF is_running THEN "poll" ELSE "stopped"
    /\ UNCHANGED <<db, trades, run, config, environ, sizing, runs, outcomes, aggregation>>

\* The clock of the buffer, int(time.time() * 1000), as far as it is
\* followed.
MaxTime == 2
Times == 0..MaxTime

get_aggregation_key(rec, user_address) ==
    <<user_address, rec.conditionId, rec.asset, rec.side>>

\* sum(usdcSize * price) over the trades of a group
RECURSIVE total_value(_, _)
total_value(d, ids) ==
    IF ids = <<>> THEN Zero
    ELSE RAdd(RMul(d[Head(ids)].usdcSize, d[Head(ids)].price),
              total_value(d, Tail(ids)))

\* An update that adds the price of the trade to the average.
UpdatedBySimpleMean(d, agg, id, total, now) ==
    [agg EXCEPT !.trades = Append(@, id),
                !.totalUsdcSize = total,
                !.averagePrice = RDiv(RAdd(agg.averagePrice, d[id].price), Int2Rat(2)),
                !.lastTradeTime = now]

\* The group with one more trade.
Updated(d, agg, id, total, now) ==
    [agg EXCEPT !.trades = Append(@, id),
                !.totalUsdcSize = total,
                !.averagePrice = IF RGt(total, Zero)
                                 THEN RDiv(total_value(d, Append(agg.trades, id)), total)
                                 ELSE Zero,
                !.lastTradeTime = now]

NewAggregation(d, id, user_address, now) ==
    [key |-> get_aggregation_key(d[id], user_address), userAddress |-> user_address,
     conditionId |-> d[id].conditionId, asset |-> d[id].asset,
     side |-> d[id].side, trades |-> <<id>>,
     totalUsdcSize |-> d[id].usdcSize, averagePrice |-> d[id].price,
     firstTradeTime |-> now, lastTradeTime |-> now]

\* add_to_aggregation_buffer: the buffer after the trade was added.
add_to_aggregation_buffer(buf, d, id, user_address, now) ==
    IF \E i \in 1..Len(buf) : buf[i].key = get_aggregation_key(d[id], user_address)
    THEN [i \in 1..Len(buf) |->
            IF buf[i].key = get_aggregation_key(d[id], user_address)
            THEN Updated(d, buf[i], id,
                         RAdd(buf[i].totalUsdcSize, d[id].usdcSize), now)
            ELSE buf[i]]
    ELSE Append(buf, NewAggregation(d, id, user_address, now))

\* TRADE_AGGREGATION_WINDOW_SECONDS * 1000, in the unit of the clock.
window_ms == 1

\* The trades of a group, as far as the bound on its length admits.
Admits(buf, d, id) ==
    \A i \in 1..Len(buf) :
        buf[i].key = get_aggregation_key(d[id], d[id].userAddress) =>
            Len(buf[i].trades) < MaxGroup

\* trade_executor, aggregation enabled: the next trade of the list goes to
\* the buffer.
aggregate_trade ==
    /\ pc = "trading"
    /\ trades # <<>>
    /\ TRADE_AGGREGATION_ENABLED
    /\ IsAggregated(db[Head(trades)])
    /\ Admits(trade_aggregation_buffer, db, Head(trades))
    /\ \E now \in Times :
          /\ now >= clock
          /\ clock' = now
          /\ trade_aggregation_buffer' =
                add_to_aggregation_buffer(trade_aggregation_buffer, db, Head(trades),
                                          db[Head(trades)].userAddress, now)
    /\ trades' = Tail(trades)
    /\ UNCHANGED <<db, pc, run, config, environ, sizing, runs, outcomes,
                   TRADE_AGGREGATION_ENABLED, ready_aggregations, is_running>>

\* The subsequence of the groups whose index is in keep.
RECURSIVE Groups(_, _, _)
Groups(buf, i, keep) ==
    IF i > Len(buf) THEN <<>>
    ELSE (IF i \in keep THEN <<buf[i]>> ELSE <<>>) \o Groups(buf, i + 1, keep)

IsReady(agg) == RGe(agg.totalUsdcSize, TRADE_AGGREGATION_MIN_TOTAL_USD)

\* The groups that have had no trade for a window at the time now.
ElapsedSinceLast(buf, now) ==
    {i \in 1..Len(buf) : now - buf[i].lastTradeTime >= window_ms}

\* The groups whose window has passed at the time now.
Elapsed(buf, now) ==
    {i \in 1..Len(buf) : now - buf[i].firstTradeTime >= window_ms}

\* The trades of the groups whose window passed with too small a total.
SkippedTrades(buf, elapsed) ==
    {id \in Ids : \E i \in elapsed :
        ~IsReady(buf[i]) /\ \E j \in 1..Len(buf[i].trades) : buf[i].trades[j] = id}

\* The buffer, the ready groups and the collection after a call of
\* get_ready_aggregated_trades at the time now.
Drained(buf, now) ==
    Groups(buf, 1, (1..Len(buf)) \ Elapsed(buf, now))

Promoted(buf, now) ==
    Groups(buf, 1, {i \in Elapsed(buf, now) : IsReady(buf[i])})

Discarded(d, buf, now) ==
    [id \in Ids |->
        IF id \in SkippedTrades(buf, Elapsed(buf, now))
        THEN [d[id] EXCEPT !.bot = TRUE] ELSE d[id]]

\* get_ready_aggregated_trades, called by the executor once the trades of
\* the poll are in the buffer.
get_ready_aggregated_trades ==
    /\ pc = "trading"
    /\ trades = <<>>
    /\ TRADE_AGGREGATION_ENABLED
    /\ \E now \in Times :
          /\ now >= clock
          /\ clock' = now
          /\ ready_aggregations' = Promoted(trade_aggregation_buffer, now)
          /\ db' = Discarded(db, trade_aggregation_buffer, now)
          /\ trade_aggregation_buffer' = Drained(trade_aggregation_buffer, now)
    /\ pc' = "aggregated"
    /\ UNCHANGED <<trades, run, config, environ, sizing, runs, outcomes,
                   TRADE_AGGREGATION_ENABLED, is_running>>

\* Mark all individual trades of the group as being processed.
PickedUpAll(d, agg) ==
    [id \in Ids |->
        IF \E j \in 1..Len(agg.trades) : agg.trades[j] = id
        THEN [d[id] EXCEPT !.botExcutedTime = 1] ELSE d[id]]

\* The first trade of the group as it is.
first_trade(d, agg) == TradeOf(d[agg.trades[1]])

\* The first trade of the group with the aggregated values.
synthetic_trade(d, agg) ==
    [TradeOf(d[agg.trades[1]]) EXCEPT !.usdcSize = agg.totalUsdcSize,
                                      !.price = agg.averagePrice]

\* do_aggregated_trading: the next ready group is handed to post_order.
do_aggregated_trading ==
    /\ pc = "aggregated"
    /\ ready_aggregations # <<>>
    /\ \E my_position \in MyPositions, user_position \in UserPositions,
          my_balance \in Balances :
          post_order(IF Head(ready_aggregations).side = "BUY" THEN "buy" ELSE "sell",
                     Head(ready_aggregations).trades[1],
                     synthetic_trade(db, Head(ready_aggregations)),
                     my_position, user_position, my_balance,
                     PickedUpAll(db, Head(ready_aggregations)))
    /\ ready_aggregations' = Tail(ready_aggregations)
    /\ UNCHANGED <<trades, config, environ, sizing, TRADE_AGGREGATION_ENABLED,
                   trade_aggregation_buffer, clock, is_running>>

\* post_order called with condition "merge" for the next trade of the list.
do_merge ==
    /\ pc = "trading"
    /\ trades # <<>>
    /\ \E my_position \in MyPositions :
          post_order("merge", Head(trades), TradeOf(db[Head(trades)]), my_position,
                     NoPos, Zero, PickedUp(db, Head(trades)))
    /\ trades' = Tail(trades)
    /\ UNCHANGED <<config, environ, sizing, aggregation>>

(***************************************************************************)
(* Specifications                                                          *)
(***************************************************************************)
Init ==
    /\ environ = None
    /\ clock = 0
    /\ is_running = TRUE
    /\ \E history \in [1..MaxHistory -> HistoryRecords] :
          db = [id \in Ids |-> IF id <= MaxHistory THEN history[id] ELSE NoRecord]
    /\ pc = "poll"
    /\ trades = <<>>
    /\ run = NoRun
    /\ config \in Configs
    /\ runs = [id \in Ids |-> 0]
    /\ outcomes = [id \in Ids |-> "none"]
    /\ TRADE_AGGREGATION_ENABLED = FALSE
    /\ trade_aggregation_buffer = <<>>
    /\ ready_aggregations = <<>>
    /\ sizing = None

Next ==
    \/ fetch_trade_data
    \/ trade_executor_poll
    \/ do_trading
    \/ post_order_step
    \/ trade_executor_sleep

\* The program: monitor and executor.
Spec == Init /\ [][Next]_vars

\* graceful_shutdown up to its sleep: stop_trade_monitor() and
\* stop_trade_executor() clear the flags of the two loops.
graceful_shutdown ==
    /\ is_running
    /\ is_running' = FALSE
    /\ UNCHANGED <<db, pc, trades, run, config, runs, outcomes, sizing, environ,
                   TRADE_AGGREGATION_ENABLED, trade_aggregation_buffer,
                   ready_aggregations, clock>>

\* trade_executor: the loop finds the flag cleared and returns.
trade_executor_stopped ==
    /\ pc = "poll"
    /\ ~is_running
    /\ pc' = "stopped"
    /\ UNCHANGED <<db, trades, run, config, environ, sizing, runs, outcomes, aggregation>>

\* graceful_shutdown after its sleep of 2 seconds: close_db() and
\* sys.exit(0), wherever the executor is by then.
graceful_shutdown_exit ==
    /\ ~is_running
    /\ pc # "exited"
    /\ pc' = "exited"
    /\ UNCHANGED <<db, trades, run, config, environ, sizing, runs, outcomes, aggregation>>

NextStop ==
    \/ Next
    \/ graceful_shutdown
    \/ trade_executor_stopped
    \/ graceful_shutdown_exit

\* The program and its shutdown.
SpecStop == Init /\ [][NextStop]_vars

\* An executed BUY of a followed trader that filled 2 tokens of "yes".
TrackedBuy(user_address) ==
    Record([Activity("BUY", "yes", One, Half) EXCEPT !.userAddress = user_address],
           TRUE, 1, Int2Rat(2))

\* The traders of USER_ADDRESSES.
USER_ADDRESSES == {USER_ADDRESS, "trader2"}

\* The program after two BUY runs of 2 tokens each, of one trader or of two:
\* 4 tokens acquired, none sold.
InitLedger ==
    /\ environ = None
    /\ clock = 0
    /\ is_running = TRUE
    /\ \E user_address \in USER_ADDRESSES :
          db = [id \in Ids |->
                  CASE id = 1 -> TrackedBuy(USER_ADDRESS)
                    [] id = 2 -> TrackedBuy(user_address)
                    [] OTHER -> NoRecord]
    /\ pc = "poll"
    /\ trades = <<>>
    /\ run = NoRun
    /\ config \in Configs
    /\ runs = [id \in Ids |-> 0]
    /\ outcomes = [id \in Ids |-> "none"]
    /\ TRADE_AGGREGATION_ENABLED = FALSE
    /\ trade_aggregation_buffer = <<>>
    /\ ready_aggregations = <<>>
    /\ sizing = None

SpecLedger == InitLedger /\ [][Next]_vars

\* The program, and post_order entered with condition "merge" as well.
SpecRun == Init /\ [][Next \/ do_merge]_vars

\* The monitor finds one new trade of the followed trader.
fetch_one_trade ==
    /\ \A id \in Ids : id > MaxHistory => ~db[id].present
    /\ fetch_trade_data

NextOneRun ==
    \/ fetch_one_trade
    \/ trade_executor_poll
    \/ do_trading
    \/ do_merge
    \/ post_order_step
    \/ trade_executor_sleep

\* One trade from its arrival to the return of post_order, with the event
\* loop resuming post_order whenever the transport has answered: a run that
\* is in its loop takes its next iteration.
SpecOneRun == Init /\ [][NextOneRun]_vars /\ WF_vars(post_order_step)

\* The program with either setting of TRADE_AGGREGATION_ENABLED.
InitAggregation ==
    /\ environ = None
    /\ clock = 0
    /\ is_running = TRUE
    /\ \E history \in [1..MaxHistory -> HistoryRecords] :
          db = [id \in Ids |-> IF id <= MaxHistory THEN history[id] ELSE NoRecord]
    /\ pc = "poll"
    /\ trades = <<>>
    /\ run = NoRun
    /\ config \in Configs
    /\ runs = [id \in Ids |-> 0]
    /\ outcomes = [id \in Ids |-> "none"]
    /\ TRADE_AGGREGATION_ENABLED \in BOOLEAN
    /\ trade_aggregation_buffer = <<>>
    /\ ready_aggregations = <<>>
    /\ sizing = None

NextAggregation ==
    \/ Next
    \/ aggregate_trade
    \/ get_ready_aggregated_trades
    \/ do_aggregated_trading

SpecAggregation == InitAggregation /\ [][NextAggregation]_vars

(***************************************************************************)
(* config/copy_strategy.py: calculate_order_size on its own                *)
(***************************************************************************)
\* The limits of a configuration: minOrderSizeUSD and maxOrderSizeUSD.
Limits == { <<One, Int2Rat(3)>>, <<One, Int2Rat(100)>>, <<Int2Rat(5), Int2Rat(5)>> }

Strategies == {"PERCENTAGE", "FIXED", "ADAPTIVE"}

\* Configurations as parse_copy_strategy builds them and
\* validate_copy_strategy_config accepts them: the adaptive parameters only
\* with ADAPTIVE, tiers or a single multiplier or neither, the position
\* limit set or not.
StrategyConfigs ==
    { [strategy |-> strategy, copySize |-> copySize,
       adaptiveMinPercent |-> IF strategy = "ADAPTIVE" THEN Int2Rat(5) ELSE None,
       adaptiveMaxPercent |-> IF strategy = "ADAPTIVE" THEN Int2Rat(80) ELSE None,
       adaptiveThreshold |-> IF strategy = "ADAPTIVE" THEN Int2Rat(100) ELSE None,
       tieredMultipliers |-> tiers,
       tradeMultiplier |-> IF tiers = <<>> THEN multiplier ELSE None,
       maxOrderSizeUSD |-> limits[2], minOrderSizeUSD |-> limits[1],
       maxPositionSizeUSD |-> maxPosition] :
      strategy \in Strategies,
      copySize \in {Int2Rat(10), Int2Rat(50)},
      tiers \in { <<>>, <<Tier(Zero, Int2Rat(5), Int2Rat(2)),
                          Tier(Int2Rat(5), None, Half)>> },
      multiplier \in {None, Int2Rat(3)},
      limits \in Limits,
      maxPosition \in {None, Zero, Int2Rat(10)} }

\* The arguments of a call: the trader's order in USD, our balance, the
\* value of our position.
TraderOrderSizes == {Half, Int2Rat(2), Int2Rat(8), Int2Rat(200), Int2Rat(1000)}
AvailableBalances == {Zero, One, Int2Rat(10), Int2Rat(40), Int2Rat(1000)}
PositionSizes == {Zero, Int2Rat(8), <<19, 2>>, Int2Rat(10), Int2Rat(20)}

Call(trader_order_size, available_balance, current_position_size) ==
    [traderOrderSize |-> trader_order_size, availableBalance |-> available_balance,
     currentPositionSize |-> current_position_size, result |-> None]

InitStrategy ==
    /\ environ = None
    /\ clock = 0
    /\ is_running = TRUE
    /\ db = [id \in Ids |-> NoRecord]
    /\ pc = "sizing"
    /\ trades = <<>>
    /\ run = NoRun
    /\ config \in StrategyConfigs
    /\ runs = [id \in Ids |-> 0]
    /\ outcomes = [id \in Ids |-> "none"]
    /\ TRADE_AGGREGATION_ENABLED = FALSE
    /\ trade_aggregation_buffer = <<>>
    /\ ready_aggregations = <<>>
    /\ \E trader_order_size \in TraderOrderSizes,
          available_balance \in AvailableBalances,
          current_position_size \in PositionSizes :
          sizing = Call(trader_order_size, available_balance, current_position_size)

\* order_calc = calculate_order_size(COPY_STRATEGY_CONFIG, ...)
size_order ==
    /\ pc = "sizing"
    /\ sizing' = [sizing EXCEPT !.result =
                     calculate_order_size(config, sizing.traderOrderSize,
                                          sizing.availableBalance,
                                          sizing.currentPositionSize)]
    /\ pc' = "sized"
    /\ UNCHANGED <<db, trades, run, config, environ, runs, outcomes, aggregation>>

NextStrategy == size_order

\* calculate_order_size applied to every configuration and every call.
SpecStrategy == InitStrategy /\ [][NextStrategy]_vars

(***************************************************************************)
(* config/copy_strategy.py: the adaptive percent and the multiplier        *)
(***************************************************************************)
\* Tier lists as parse_tiered_multipliers returns them: none, contiguous
\* tiers, tiers with gaps and an unbounded last tier, tiers with a gap and a
\* bounded last tier.
TierLists ==
    { <<>>,
      <<Tier(Zero, Int2Rat(10), Int2Rat(2)), Tier(Int2Rat(10), Int2Rat(100), One)>>,
      <<Tier(Zero, Int2Rat(5), Int2Rat(2)), Tier(Int2Rat(10), Int2Rat(20), Half),
        Tier(Int2Rat(50), None, Int2Rat(3))>>,
      <<Tier(One, Int2Rat(5), Int2Rat(2)), Tier(Int2Rat(10), Int2Rat(20), Half)>> }

\* Configurations as far as calculate_adaptive_percent and
\* get_trade_multiplier read them.
ResolverConfigs ==
    { [strategy |-> "ADAPTIVE", copySize |-> copySize,
       adaptiveMinPercent |-> minPercent, adaptiveMaxPercent |-> maxPercent,
       adaptiveThreshold |-> threshold,
       tieredMultipliers |-> tiers, tradeMultiplier |-> multiplier,
       maxOrderSizeUSD |-> Int2Rat(100), minOrderSizeUSD |-> One,
       maxPositionSizeUSD |-> None] :
      copySize \in {Int2Rat(10), Int2Rat(50)},
      minPercent \in {None, Zero, Int2Rat(5)},
      maxPercent \in {None, Int2Rat(80)},
      threshold \in {None, Int2Rat(100)},
      tiers \in TierLists,
      multiplier \in {None, Zero, Int2Rat(3)} }

OrderSizes ==
    { Zero, Half, Int2Rat(5), Int2Rat(7), Int2Rat(10), Int2Rat(30), Int2Rat(100),
      Int2Rat(150), Int2Rat(200), Int2Rat(250), Int2Rat(500), Int2Rat(1000) }

InitResolver ==
    /\ environ = None
    /\ clock = 0
    /\ is_running = TRUE
    /\ db = [id \in Ids |-> NoRecord]
    /\ pc = "resolving"
    /\ trades = <<>>
    /\ run = NoRun
    /\ config \in ResolverConfigs
    /\ runs = [id \in Ids |-> 0]
    /\ outcomes = [id \in Ids |-> "none"]
    /\ TRADE_AGGREGATION_ENABLED = FALSE
    /\ trade_aggregation_buffer = <<>>
    /\ ready_aggregations = <<>>
    /\ \E trader_order_size \in OrderSizes :
          sizing = [traderOrderSize |-> trader_order_size,
                    adaptive_percent |-> None, multiplier |-> None]

\* adaptive_percent = calculate_adaptive_percent(config, trader_order_size)
\* multiplier = get_trade_multiplier(config, trader_order_size)
resolve ==
    /\ pc = "resolving"
    /\ sizing' = [sizing EXCEPT
                     !.adaptive_percent =
                        calculate_adaptive_percent(config, sizing.traderOrderSize),
                     !.multiplier =
                        get_trade_multiplier(config, sizing.traderOrderSize)]
    /\ pc' = "resolved"
    /\ UNCHANGED <<db, trades, run, config, environ, runs, outcomes, aggregation>>

NextResolver == resolve

\* The adaptive percent and the multiplier for every configuration and size.
SpecResolver == InitResolver /\ [][NextResolver]_vars

(***************************************************************************)
(* config/copy_strategy.py parse_tiered_multipliers and config/env.py      *)
(* parse_copy_strategy.  A text is a sequence of tokens: a separator       *)
(* (",", ":", "-", "+", " "), a number literal, or a word.                 *)
(***************************************************************************)
\* float() of one number literal.
LiteralValue ==
    ("0" :> Zero) @@ ("0.5" :> Half) @@ ("1" :> One) @@ ("1.0" :> One) @@
    ("2" :> Int2Rat(2)) @@ ("5" :> Int2Rat(5)) @@ ("10" :> Int2Rat(10)) @@
    ("10.0" :> Int2Rat(10)) @@ ("20" :> Int2Rat(20)) @@ ("50" :> Int2Rat(50)) @@
    ("80" :> Int2Rat(80)) @@ ("100.0" :> Int2Rat(100)) @@
    ("150" :> Int2Rat(150)) @@ ("500.0" :> Int2Rat(500))

\* What a float() of a text that is not a number raises, in place of a value.
ValueError == <<"ValueError">>

\* str.strip(): the text without its leading and trailing blanks.
RECURSIVE strip(_)
strip(text) ==
    IF text = <<>> THEN text
    ELSE IF Head(text) = " " THEN strip(Tail(text))
    ELSE IF text[Len(text)] = " " THEN strip(SubSeq(text, 1, Len(text) - 1))
    ELSE text

\* float() of a text without blanks around it: a literal, or a sign and a
\* literal.
float_stripped(text) ==
    IF Len(text) = 1 /\ text[1] \in DOMAIN LiteralValue THEN LiteralValue[text[1]]
    ELSE IF Len(text) = 2 /\ text[1] = "+" /\ text[2] \in DOMAIN LiteralValue
    THEN LiteralValue[text[2]]
    ELSE IF Len(text) = 2 /\ text[1] = "-" /\ text[2] \in DOMAIN LiteralValue
    THEN RSub(Zero, LiteralValue[text[2]])
    ELSE ValueError

float(text) == float_stripped(strip(text))

\* The position of the first sep in text.
find(text, sep) ==
    CHOOSE i \in 1..Len(text) : text[i] = sep /\ \A j \in 1..(i - 1) : text[j] # sep

\* str.split(sep): the pieces between the separators, empty pieces included.
RECURSIVE split(_, _)
split(text, sep) ==
    IF \A i \in 1..Len(text) : text[i] # sep THEN <<text>>
    ELSE <<SubSeq(text, 1, find(text, sep) - 1)>>
            \o split(SubSeq(text, find(text, sep) + 1, Len(text)), sep)

\* What parse_tiered_multipliers does: it raises ValueError or returns tiers.
Raised == [raised |-> TRUE, tiers |-> <<>>]
Returned(tiers) == [raised |-> FALSE, tiers |-> tiers]

\* The range "min+" of a tier with an infinite upper bound.
parse_unbounded_min(min_val, multiplier) ==
    IF min_val = ValueError THEN Raised
    ELSE IF RLt(min_val, Zero) THEN Raised
    ELSE Returned(<<Tier(min_val, None, multiplier)>>)

\* The two values of the range "min-max" of a bounded tier.
parse_bounded_values(min_val, max_val, multiplier) ==
    IF min_val = ValueError \/ max_val = ValueError THEN Raised
    ELSE IF RLt(min_val, Zero) THEN Raised
    ELSE IF RLe(max_val, min_val) THEN Raised
    ELSE Returned(<<Tier(min_val, max_val, multiplier)>>)

parse_bounded(range_parts, multiplier) ==
    IF Len(range_parts) # 2 THEN Raised
    ELSE IF range_parts[1] = <<>> \/ range_parts[2] = <<>> THEN Raised
    ELSE parse_bounded_values(float(range_parts[1]), float(range_parts[2]), multiplier)

parse_range(range_str, multiplier) ==
    IF range_str # <<>> /\ range_str[Len(range_str)] = "+"
    THEN parse_unbounded_min(float(SubSeq(range_str, 1, Len(range_str) - 1)), multiplier)
    ELSE IF \E i \in 1..Len(range_str) : range_str[i] = "-"
    THEN parse_bounded(split(range_str, "-"), multiplier)
    ELSE Raised

parse_parts(range_str, multiplier) ==
    IF multiplier = ValueError THEN Raised
    ELSE IF RLt(multiplier, Zero) THEN Raised
    ELSE parse_range(range_str, multiplier)

\* A loop that appends the tier of a definition that has no single ':' as
\* the catch-all tier 0+ with the multiplier 1.
parse_tier_def_defaulting(parts) ==
    IF Len(parts) # 2 THEN Returned(<<Tier(Zero, None, One)>>)
    ELSE parse_parts(parts[1], float(parts[2]))

\* One iteration of the loop over tier_defs: the tier of "min-max:multiplier"
\* or "min+:multiplier".
parse_tier_def(parts) ==
    IF Len(parts) # 2 THEN Raised
    ELSE parse_parts(parts[1], float(parts[2]))

\* The loop over tier_defs from definition i on; tiers are those appended.
RECURSIVE parse_tier_defs(_, _, _)
parse_tier_defs(tier_defs, i, tiers) ==
    IF i > Len(tier_defs) THEN Returned(tiers)
    ELSE IF parse_tier_def(split(tier_defs[i], ":")).raised THEN Raised
    ELSE parse_tier_defs(tier_defs, i + 1,
                         tiers \o parse_tier_def(split(tier_defs[i], ":")).tiers)

\* How many of the tiers have a min of at most min_val.
RECURSIVE count_at_most(_, _)
count_at_most(tiers, min_val) ==
    IF tiers = <<>> THEN 0
    ELSE (IF RLe(Head(tiers).min, min_val) THEN 1 ELSE 0)
            + count_at_most(Tail(tiers), min_val)

\* tier put into a sorted list behind the tiers whose min is not larger.
insert(sorted, tier) ==
    SubSeq(sorted, 1, count_at_most(sorted, tier.min)) \o <<tier>>
        \o SubSeq(sorted, count_at_most(sorted, tier.min) + 1, Len(sorted))

\* tiers.sort(key=min): a stable sort.
RECURSIVE sort(_)
sort(tiers) ==
    IF tiers = <<>> THEN <<>>
    ELSE insert(sort(SubSeq(tiers, 1, Len(tiers) - 1)), tiers[Len(tiers)])

\* A validation that rejects a misplaced infinite tier and no overlap.
validate_infinite_only(tiers) ==
    IF \E i \in 1..(Len(tiers) - 1) : tiers[i].max = None
    THEN Raised
    ELSE Returned(tiers)

\* The validation of the sorted tiers, pair by pair.
validate(tiers) ==
    IF \E i \in 1..(Len(tiers) - 1) :
          \/ tiers[i].max = None
          \/ RGt(tiers[i].max, tiers[i + 1].min)
    THEN Raised
    ELSE Returned(tiers)

sort_and_validate(parsed) ==
    IF parsed.raised THEN Raised ELSE validate(sort(parsed.tiers))

NotBlank(t) == strip(t) # <<>>

StripAll(pieces) == [i \in 1..Len(pieces) |-> strip(pieces[i])]

\* tier_defs: the stripped pieces of the text that are not blank.
tier_defs_of(tiers_str) == StripAll(SelectSeq(split(tiers_str, ","), NotBlank))

parse_tiered_multipliers(tiers_str) ==
    IF tiers_str = <<>> \/ strip(tiers_str) = <<>> THEN Returned(<<>>)
    ELSE sort_and_validate(parse_tier_defs(tier_defs_of(tiers_str), 1, <<>>))

\* str.upper() of the strategy names among the tokens.
upper_token(token) ==
    IF token = "adaptive" THEN "ADAPTIVE"
    ELSE IF token = "fixed" THEN "FIXED"
    ELSE IF token = "martingale" THEN "MARTINGALE"
    ELSE token

upper(text) == [i \in 1..Len(text) |-> upper_token(text[i])]

\* os.getenv(name, default): value is None when the variable is not set.
getenv(value, default) == IF value = None THEN default ELSE value

\* The names of the members of CopyStrategy.
CopyStrategy == {"PERCENTAGE", "FIXED", "ADAPTIVE"}

\* What parse_copy_strategy does: it returns a configuration, or raises
\* ConfigurationError, or lets the ValueError of a float() through.
Loaded(cfg) == [error |-> "none", config |-> cfg]
Failed(error) == [error |-> error, config |-> None]

\* The configuration with the limits of the environment.
base_config(env, strategy, copy_size) ==
    [strategy |-> strategy, copySize |-> copy_size,
     adaptiveMinPercent |-> None, adaptiveMaxPercent |-> None,
     adaptiveThreshold |-> None,
     tieredMultipliers |-> <<>>, tradeMultiplier |-> None,
     maxOrderSizeUSD |-> float(getenv(env.MAX_ORDER_SIZE_USD, <<"100.0">>)),
     minOrderSizeUSD |-> float(getenv(env.MIN_ORDER_SIZE_USD, <<"1.0">>)),
     maxPositionSizeUSD |->
        IF env.MAX_POSITION_SIZE_USD = None THEN None
        ELSE float(env.MAX_POSITION_SIZE_USD)]

\* The adaptive parameters, each defaulting as the code defaults it.
with_adaptive(env, cfg) ==
    IF cfg.strategy # "ADAPTIVE" THEN cfg
    ELSE [cfg EXCEPT
            !.adaptiveMinPercent =
                IF env.ADAPTIVE_MIN_PERCENT = None THEN cfg.copySize
                ELSE float(env.ADAPTIVE_MIN_PERCENT),
            !.adaptiveMaxPercent =
                IF env.ADAPTIVE_MAX_PERCENT = None THEN cfg.copySize
                ELSE float(env.ADAPTIVE_MAX_PERCENT),
            !.adaptiveThreshold =
                float(getenv(env.ADAPTIVE_THRESHOLD_USD, <<"500.0">>))]

\* Some float() on the way to cfg has raised.
float_raised(cfg) ==
    \E value \in {cfg.copySize, cfg.maxOrderSizeUSD, cfg.minOrderSizeUSD,
                  cfg.maxPositionSizeUSD, cfg.adaptiveMinPercent,
                  cfg.adaptiveMaxPercent, cfg.adaptiveThreshold} :
        value = ValueError

\* The tiers of TIERED_MULTIPLIERS put into cfg.
with_tiers(cfg, parsed) ==
    IF parsed.raised THEN Failed("ConfigurationError")
    ELSE Loaded([cfg EXCEPT !.tieredMultipliers = parsed.tiers])

\* The single multiplier put into cfg, unless it is 1.0.
with_multiplier(cfg, trade_multiplier) ==
    IF trade_multiplier = ValueError THEN Failed("ValueError")
    ELSE IF trade_multiplier # One
    THEN Loaded([cfg EXCEPT !.tradeMultiplier = trade_multiplier])
    ELSE Loaded(cfg)

\* The legacy path once COPY_PERCENTAGE and TRADE_MULTIPLIER are converted.
legacy_config(env, copy_percentage, trade_multiplier) ==
    IF copy_percentage = ValueError \/ trade_multiplier = ValueError
    THEN Failed("ValueError")
    ELSE IF float_raised(base_config(env, "PERCENTAGE", Zero))
    THEN Failed("ValueError")
    ELSE IF env.TIERED_MULTIPLIERS # None
    THEN with_tiers(base_config(env, "PERCENTAGE",
                                RMul(copy_percentage, trade_multiplier)),
                    parse_tiered_multipliers(env.TIERED_MULTIPLIERS))
    ELSE with_multiplier(base_config(env, "PERCENTAGE",
                                     RMul(copy_percentage, trade_multiplier)),
                         trade_multiplier)

\* The path of COPY_STRATEGY once the strategy is known.
strategy_config(env, cfg) ==
    IF float_raised(cfg) THEN Failed("ValueError")
    ELSE IF env.TIERED_MULTIPLIERS # None
    THEN with_tiers(cfg, parse_tiered_multipliers(env.TIERED_MULTIPLIERS))
    ELSE IF env.TRADE_MULTIPLIER # None
    THEN with_multiplier(cfg, float(env.TRADE_MULTIPLIER))
    ELSE Loaded(cfg)

\* CopyStrategy[strategy_str], and PERCENTAGE on a KeyError.
strategy_of(strategy_str) ==
    IF Len(strategy_str) = 1 /\ strategy_str[1] \in CopyStrategy
    THEN strategy_str[1]
    ELSE "PERCENTAGE"

parse_copy_strategy(env) ==
    IF env.COPY_PERCENTAGE # None /\ env.COPY_STRATEGY = None
    THEN legacy_config(env, float(env.COPY_PERCENTAGE),
                       float(getenv(env.TRADE_MULTIPLIER, <<"1.0">>)))
    ELSE strategy_config(env,
            with_adaptive(env,
                base_config(env,
                    strategy_of(upper(getenv(env.COPY_STRATEGY, <<"PERCENTAGE">>))),
                    float(getenv(env.COPY_SIZE, <<"10.0">>)))))

\* The tier definitions the texts are made of.
Segments ==
    { <<"0", "-", "5", ":", "2">>,
      <<"5", "-", "10", ":", "1">>,
      <<"10", "-", "20", ":", "1">>,
      <<"0", "-", "10", ":", "0.5">>,
      <<"10", "+", ":", "0.5">>,
      <<"5", "+", ":", "2">>,
      <<" ", "20", " ", "-", " ", "50", " ", ":", " ", "+", "2", " ">>,
      <<" ">>,
      <<"0", "-", "5">>,
      <<"0", "-", "5", ":", "2", ":", "1">>,
      <<"0", "-", "5", ":", "x">>,
      <<"0", "-", "5", ":", "-", "2">>,
      <<"10", "-", "5", ":", "1">>,
      <<"5", "-", "5", ":", "1">>,
      <<"5", "-", "-", "2", ":", "1">>,
      <<"-", "5", "+", ":", "1">>,
      <<"-", "5", "-", "10", ":", "1">> }

\* The largest number of definitions in a text.
MaxSegments == 3

\* The definitions with commas between them.
RECURSIVE join(_)
join(segments) ==
    IF Len(segments) = 1 THEN segments[1]
    ELSE segments[1] \o <<",">> \o join(Tail(segments))

TierTexts ==
    { join(segments) :
        segments \in UNION { [1..n -> Segments] : n \in 1..MaxSegments } }

\* An environment in which none of the settings is set.
NoSettings ==
    [COPY_PERCENTAGE |-> None, COPY_STRATEGY |-> None, COPY_SIZE |-> None,
     TRADE_MULTIPLIER |-> None, TIERED_MULTIPLIERS |-> None,
     MAX_ORDER_SIZE_USD |-> None, MIN_ORDER_SIZE_USD |-> None,
     MAX_POSITION_SIZE_USD |-> None, ADAPTIVE_MIN_PERCENT |-> None,
     ADAPTIVE_MAX_PERCENT |-> None, ADAPTIVE_THRESHOLD_USD |-> None]

\* Every tier text, on the legacy path and on the path of COPY_STRATEGY.
TierEnvironments ==
    { [NoSettings EXCEPT !.TIERED_MULTIPLIERS = tiers_str,
                         !.COPY_PERCENTAGE = copy_percentage] :
        tiers_str \in TierTexts, copy_percentage \in {None, <<"10">>} }

\* The other settings, with and without tiers.
SettingEnvironments ==
    { [NoSettings EXCEPT !.COPY_PERCENTAGE = copy_percentage,
                         !.COPY_STRATEGY = copy_strategy,
                         !.COPY_SIZE = copy_size,
                         !.TRADE_MULTIPLIER = trade_multiplier,
                         !.TIERED_MULTIPLIERS = tiers_str,
                         !.MAX_ORDER_SIZE_USD = max_order_size,
                         !.ADAPTIVE_MIN_PERCENT = adaptive[1],
                         !.ADAPTIVE_MAX_PERCENT = adaptive[2]] :
        copy_percentage \in {None, <<"10">>},
        copy_strategy \in {None, <<"FIXED">>, <<"adaptive">>, <<"MARTINGALE">>},
        copy_size \in {None, <<"150">>, <<"x">>},
        trade_multiplier \in {None, <<"1.0">>, <<"2">>},
        tiers_str \in {None, <<"0", "+", ":", "2">>},
        max_order_size \in {None, <<"0.5">>},
        adaptive \in {<<None, None>>, <<<<"5">>, <<"80">>>>, <<<<"80">>, <<"5">>>>} }

Environments == TierEnvironments \cup SettingEnvironments

LoadCalls ==
    { Call(trader_order_size, Int2Rat(1000), Zero) :
        trader_order_size \in {Int2Rat(5), Int2Rat(100)} }

InitLoad ==
    /\ clock = 0
    /\ is_running = TRUE
    /\ db = [id \in Ids |-> NoRecord]
    /\ pc = "loading"
    /\ trades = <<>>
    /\ run = NoRun
    /\ config = None
    /\ runs = [id \in Ids |-> 0]
    /\ outcomes = [id \in Ids |-> "none"]
    /\ TRADE_AGGREGATION_ENABLED = FALSE
    /\ trade_aggregation_buffer = <<>>
    /\ ready_aggregations = <<>>
    /\ environ \in Environments
    /\ sizing \in LoadCalls

\* The import of config/env.py: ENV["COPY_STRATEGY_CONFIG"] is what
\* parse_copy_strategy returns, and an error it raises ends the process.
load ==
    /\ pc = "loading"
    /\ IF parse_copy_strategy(environ).error = "none"
       THEN config' = parse_copy_strategy(environ).config /\ pc' = "sizing"
       ELSE config' = config /\ pc' = parse_copy_strategy(environ).error
    /\ UNCHANGED <<db, trades, run, environ, sizing, runs, outcomes, aggregation>>

NextLoad == load \/ size_order

\* The configuration loaded from every environment, and an order sized
\* with it.
SpecLoad == InitLoad /\ [][NextLoad]_vars

(***************************************************************************)
(* services/trade_executor.py: add_to_aggregation_buffer on its own        *)
(***************************************************************************)
\* An unprocessed record of a trade of the given trader.
TradeBy(user_address, side, asset, usdcSize, price) ==
    Record([Activity(side, asset, usdcSize, price) EXCEPT !.userAddress = user_address],
           FALSE, 0, None)

\* Trades that agree with the first in all, or in all but one, of trader,
\* asset and side, and one of no value.
AdmittedTrades ==
    { TradeBy(USER_ADDRESS, "BUY", "yes", Int2Rat(30), Half),
      TradeBy(USER_ADDRESS, "BUY", "yes", Int2Rat(20), <<3, 5>>),
      TradeBy("trader2", "BUY", "yes", Int2Rat(20), <<3, 5>>),
      TradeBy(USER_ADDRESS, "BUY", "no", Int2Rat(20), <<3, 5>>),
      TradeBy(USER_ADDRESS, "SELL", "yes", Int2Rat(20), <<3, 5>>),
      TradeBy(USER_ADDRESS, "BUY", "yes", Zero, Half) }

InitAdmit ==
    /\ environ = None
    /\ clock = 0
    /\ is_running = TRUE
    /\ db \in [Ids -> AdmittedTrades]
    /\ pc = "admitting"
    /\ trades = <<>>
    /\ run = NoRun
    /\ config \in Configs
    /\ runs = [id \in Ids |-> 0]
    /\ outcomes = [id \in Ids |-> "none"]
    /\ TRADE_AGGREGATION_ENABLED = TRUE
    /\ trade_aggregation_buffer = <<>>
    /\ ready_aggregations = <<>>
    /\ sizing = None

\* A call of add_to_aggregation_buffer(trade, trade["userAddress"]).
admit ==
    /\ pc \in {"admitting", "drained"}
    /\ pc' = "admitting"
    /\ \E id \in Ids, now \in Times :
          /\ Admits(trade_aggregation_buffer, db, id)
          /\ now >= clock
          /\ clock' = now
          /\ trade_aggregation_buffer' =
                add_to_aggregation_buffer(trade_aggregation_buffer, db, id,
                                          db[id].userAddress, now)
    /\ UNCHANGED <<db, trades, run, config, environ, sizing, runs, outcomes,
                   TRADE_AGGREGATION_ENABLED, ready_aggregations, is_running>>

NextAdmit == admit

\* Every sequence of calls of add_to_aggregation_buffer.
SpecAdmit == InitAdmit /\ [][NextAdmit]_vars

\* A call of get_ready_aggregated_trades() between the admits.
drain ==
    /\ pc \in {"admitting", "drained"}
    /\ pc' = "drained"
    /\ \E now \in Times :
          /\ now >= clock
          /\ clock' = now
          /\ ready_aggregations' = Promoted(trade_aggregation_buffer, now)
          /\ db' = Discarded(db, trade_aggregation_buffer, now)
          /\ trade_aggregation_buffer' = Drained(trade_aggregation_buffer, now)
    /\ UNCHANGED <<trades, run, config, environ, sizing, runs, outcomes,
                   TRADE_AGGREGATION_ENABLED, is_running>>

NextDrain == admit \/ drain

\* Trades of three keys: two of a value above
\* TRADE_AGGREGATION_MIN_TOTAL_USD and one of no value.
DrainedTrades ==
    { TradeBy(USER_ADDRESS, "BUY", "yes", Int2Rat(30), Half),
      TradeBy(USER_ADDRESS, "BUY", "no", Int2Rat(20), <<3, 5>>),
      TradeBy("trader2", "BUY", "yes", Zero, Half) }

InitDrain ==
    /\ environ = None
    /\ clock = 0
    /\ is_running = TRUE
    /\ db \in [Ids -> DrainedTrades]
    /\ pc = "admitting"
    /\ trades = <<>>
    /\ run = NoRun
    /\ config \in Configs
    /\ runs = [id \in Ids |-> 0]
    /\ outcomes = [id \in Ids |-> "none"]
    /\ TRADE_AGGREGATION_ENABLED = TRUE
    /\ trade_aggregation_buffer = <<>>
    /\ ready_aggregations = <<>>
    /\ sizing = None

\* Every sequence of calls of add_to_aggregation_buffer and
\* get_ready_aggregated_trades.
SpecDrain == InitDrain /\ [][NextDrain]_vars

(***************************************************************************)
(* Properties                                                              *)
(***************************************************************************)
\* A step of the invocation in progress (the monitor leaves run alone).
RunStepped == pc = "run" /\ run' # run

\* C1: in every buy, sell and merge run, a submission rejected with a
\* message of insufficient balance or allowance ends the loop at once,
\* whatever retry and remaining are: the step that receives the rejection
\* leaves remaining and retry as they were and ends the invocation as
\* aborted, and an aborted invocation is never in its loop again.
C1_FundsRejectionEndsRun ==
    /\ [][(RunStepped /\ run'.last = "insufficient") =>
             /\ run'.phase = "done" /\ run'.abort /\ pc' # "run"
             /\ run'.remaining = run.remaining /\ run'.retry = run.retry
             /\ run'.submitted = run.submitted]_vars
    /\ [](run.abort => run.phase = "done" /\ pc # "run" /\ run.last = "insufficient")

\* C1 witness: a merge run aborted for funds after an accepted order and a
\* transient failure, with tokens still remaining.
C1_Witness ==
    /\ run.cond = "merge" /\ run.phase = "done" /\ run.abort
    /\ run.retry > 0 /\ RGt(run.remaining, Zero) /\ RGt(run.submitted, Zero)

\* Record id has been handed to post_order and that invocation has returned.
Terminal(id) == runs[id] >= 1 /\ ~(pc = "run" /\ run.id = id)

\* Record id is a trade of one of the groups.
InGroups(groups, id) ==
    \E i \in 1..Len(groups) :
        \E j \in 1..Len(groups[i].trades) : groups[i].trades[j] = id

\* C2: across polls, with the monitor inserting records in between and with
\* either setting of the aggregation, a record whose run has reached a
\* terminal outcome is never run again: post_order is entered at most once
\* per record; a terminal record is neither read by a poll nor waiting in
\* the list of a poll, in the aggregation buffer or in a ready group; and no
\* step enters post_order for it or writes its processed flag or retry
\* field again. Its ledger value changes only through the ledger update of
\* a later sell of another record.
C2_TerminalNeverRerun ==
    /\ [](\A id \in Ids : runs[id] <= 1)
    /\ [](\A id \in Ids : Terminal(id) =>
             /\ db[id].bot = TRUE
             /\ ~IsUnprocessed(db[id])
             /\ \A i \in 1..Len(trades) : trades[i] # id
             /\ ~InGroups(trade_aggregation_buffer, id)
             /\ ~InGroups(ready_aggregations, id))
    /\ [][\A id \in Ids : Terminal(id) =>
             /\ runs'[id] = runs[id]
             /\ ~(pc' = "run" /\ run'.id = id)
             /\ db'[id].bot = db[id].bot
             /\ db'[id].botExcutedTime = db[id].botExcutedTime
             /\ db'[id].myBoughtSize # db[id].myBoughtSize =>
                    /\ run'.cond = "sell" /\ run'.phase = "done" /\ run'.id # id
                    /\ run' # run]_vars

\* C2 witness: a record ran to a terminal outcome in one poll, and a later
\* poll, after the monitor inserted another record, is running that one as
\* an aggregated trade.
C2_Witness ==
    /\ pc = "run" /\ run.back = "aggregated"
    /\ \E id \in Ids : Terminal(id) /\ id < run.id /\ db[id].botExcutedTime = RETRY_LIMIT

\* The capacity of the best level of a book: ask.size * ask.price of the
\* lowest ask for a buy, bid.size of the highest bid for a sell or merge.
BestCapacity(cond, book) ==
    IF cond = "buy"
    THEN RMul(BestAsk(book.asks).size, BestAsk(book.asks).price)
    ELSE BestBid(book.bids).size

\* C3: in every buy, sell and merge run, for every order book and response,
\* each order placed has amount min(remaining, capacity of the best level),
\* remaining is never negative, and the accepted amounts plus remaining make
\* the run's initial target (so the accepted total never exceeds it).
C3_AmountsAndConservation ==
    /\ RGe(run.remaining, Zero)
    /\ RAdd(run.submitted, run.remaining) = run.target
    /\ RLe(run.submitted, run.target)
    /\ pc = "run" =>
          \A book \in Books, resp \in Responses :
             Iteration(run, book, resp).order.placed =>
                Iteration(run, book, resp).order.amount =
                    RMin(run.remaining, BestCapacity(run.cond, book))

\* C3 witness: a buy run that has had an order accepted, still has an amount
\* remaining, and faces a best ask whose capacity is below it.
C3_Witness ==
    /\ pc = "run" /\ run.cond = "buy"
    /\ RGt(run.submitted, Zero)
    /\ \E book \in Books, resp \in Responses :
          /\ Iteration(run, book, resp).order.placed
          /\ RLt(Iteration(run, book, resp).order.amount, run.remaining)
          /\ Iteration(run, book, resp).order.amount = BestCapacity("buy", book)

\* C4: when a buy run that entered its loop has returned, however it ended
\* (target met, retries exhausted, aborted for funds, slippage, no liquidity,
\* dust), the myBoughtSize persisted on its record is the sum of
\* amount / price over the accepted submissions of that run.
C4_BoughtSizeIsSumOfFills ==
    (run.cond = "buy" /\ run.phase = "done" /\ run.outcome # "skipped") =>
        /\ db[run.id].myBoughtSize = run.filled
        /\ run.total = run.filled

\* C4 witness: a buy run aborted for funds after an accepted order, with a
\* record that holds the tokens of that order, not its USD amount.
C4_Witness ==
    /\ run.cond = "buy" /\ run.phase = "done" /\ run.outcome = "aborted"
    /\ RGt(run.filled, Zero) /\ run.filled # run.submitted
    /\ db[run.id].myBoughtSize = run.filled

\* C5: a sell run never sells more than the local position size passed to
\* it: the amount its loop starts from is at most that size (it is that size
\* when the computed sell size exceeds it), and so is the total of the
\* accepted sell amounts, whatever the multiplier, the ledger and the
\* trader's sell fraction.
C5_SellWithinPosition ==
    (run.cond = "sell" /\ run.outcome # "skipped") =>
        /\ RLe(run.target, run.myPosSize)
        /\ RLe(run.submitted, run.myPosSize)
        /\ RGt(run.computed, run.myPosSize) => run.target = run.myPosSize

\* C5 witness: a sell whose computed size exceeded the position and that
\* sold the whole position.
C5_Witness ==
    /\ run.cond = "sell" /\ run.phase = "done"
    /\ RGt(run.computed, run.myPosSize)
    /\ run.submitted = run.myPosSize

\* The ledger entries that contributed to the tracked total of the sell run:
\* executed BUY records of the run's asset and market whose myBoughtSize was
\* positive when the run started.
Contributed(id) ==
    /\ db[id].present /\ db[id].side = "BUY" /\ db[id].bot = TRUE
    /\ db[id].userAddress = run.userAddress
    /\ db[id].asset = run.asset /\ db[id].conditionId = run.conditionId
    /\ run.ledgerBefore[id] # None
    /\ RGt(run.ledgerBefore[id], Zero)

Contributors == {id \in Ids : Contributed(id)}

RECURSIVE SumBefore(_)
SumBefore(S) ==
    IF S = {} THEN Zero
    ELSE RAdd(run.ledgerBefore[CHOOSE x \in S : TRUE],
              SumBefore(S \ {CHOOSE x \in S : TRUE}))

\* The tokens tracked when the sell run started.
TrackedBefore == SumBefore(Contributors)

\* totalFilled / totalTracked of the sell run
SoldFraction == RDiv(run.submitted, TrackedBefore)

\* C6: after a sell run (however it ended) that sold some tokens while
\* tracked tokens existed, with soldFraction = sold / tracked: if
\* soldFraction >= 0.99 every contributing ledger entry is 0, otherwise
\* every contributing entry is its value before the run times
\* (1 - soldFraction); the other records keep their ledger value.
C6_LedgerAfterSell ==
    (/\ run.cond = "sell" /\ run.phase = "done"
     /\ RGt(run.submitted, Zero) /\ RGt(TrackedBefore, Zero)) =>
        \A id \in Ids :
            db[id].myBoughtSize =
                IF ~Contributed(id) THEN run.ledgerBefore[id]
                ELSE IF RGe(SoldFraction, <<99, 100>>) THEN Zero
                ELSE RMul(run.ledgerBefore[id], RSub(One, SoldFraction))

\* C6 witness: a sell aborted for funds after selling less than 99% of the
\* tokens tracked by two ledger entries, both scaled down.
C6_Witness ==
    /\ run.cond = "sell" /\ run.phase = "done" /\ run.outcome = "aborted"
    /\ RGt(run.submitted, Zero)
    /\ Cardinality(Contributors) = 2
    /\ RLt(SoldFraction, <<99, 100>>)
    /\ \A id \in Contributors :
           /\ RGt(db[id].myBoughtSize, Zero)
           /\ RLt(db[id].myBoughtSize, run.ledgerBefore[id])

\* trade.size / (traderRemainingSize + trade.size) for the record of the run
TraderSellFraction ==
    RDiv(db[run.id].size, RAdd(run.userPos, db[run.id].size))

\* The sell size C7 states for the run.
ExpectedSellSize ==
    IF run.userPos = None THEN run.myPosSize
    ELSE RMul(IF RGt(TrackedBefore, Zero)
              THEN RMul(TrackedBefore, TraderSellFraction)
              ELSE RMul(run.myPosSize, TraderSellFraction),
              get_trade_multiplier(config, db[run.id].usdcSize))

\* C7: for a sell with a local position, the remaining as computed before
\* the loop (before the minimum check and the cap to the position size) is
\* the entire local
\* position size when the trader's upstream position is absent, and
\* otherwise base * multiplier with base = totalTracked * traderSellFraction
\* when tracked tokens exist and localPosition.size * traderSellFraction
\* when none do; the loop then starts from the smaller of that value and
\* the local position size.
C7_SellSizing ==
    (run.cond = "sell" /\ run.myPosSize # Zero) =>
        /\ run.computed = ExpectedSellSize
        /\ run.outcome # "skipped" => run.target = RMin(ExpectedSellSize, run.myPosSize)
        /\ run.outcome = "skipped" <=> RLt(ExpectedSellSize, MIN_ORDER_SIZE_TOKENS)

\* C7 witness: a sell sized from tracked tokens with the trader's position
\* present and a multiplier other than 1, below the position size.
C7_Witness ==
    /\ run.cond = "sell" /\ run.phase = "loop"
    /\ run.userPos # None
    /\ Contributors # {}
    /\ get_trade_multiplier(config, db[run.id].usdcSize) # One
    /\ run.target = ExpectedSellSize
    /\ RLt(run.target, run.myPosSize)

\* C8: in every buy, sell and merge run, a failed submission that is no
\* rejection for funds (a failure without any message included) adds one to
\* retry and leaves remaining as it was; an accepted submission sets retry
\* to 0; retry is the number of such failures since the last accepted
\* submission and never exceeds RETRY_LIMIT; the loop is left as soon as
\* that number is RETRY_LIMIT, and a run ends by retry exhaustion exactly
\* then.
C8_RetryCounting ==
    /\ [][(RunStepped /\ run'.last = "transient") =>
             /\ run'.retry = run.retry + 1
             /\ run'.remaining = run.remaining
             /\ run'.submitted = run.submitted]_vars
    /\ [][(RunStepped /\ run'.last = "success") => run'.retry = 0]_vars
    /\ [](run.retry = run.streak /\ run.retry <= RETRY_LIMIT)
    /\ [](run.phase = "loop" => run.streak < RETRY_LIMIT)
    /\ [](run.outcome = "retry_exhausted" <=>
             (run.phase = "done" /\ run.streak = RETRY_LIMIT))

\* C8 witness: a merge run that had an order accepted and then ended by
\* retry exhaustion with tokens remaining.
C8_Witness ==
    /\ run.cond = "merge" /\ run.outcome = "retry_exhausted"
    /\ run.retry = RETRY_LIMIT
    /\ RGt(run.submitted, Zero) /\ RGt(run.remaining, Zero)

\* C9: the retry-count field recorded for a run aborted for funds is never
\* equal to the one recorded for a run that ended by retry exhaustion.
C9_SentinelDistinguishesAbort ==
    \A a, b \in Ids :
        (outcomes[a] = "aborted" /\ outcomes[b] = "retry_exhausted") =>
            db[a].botExcutedTime # db[b].botExcutedTime

\* The ways a loop completes normally: neither aborted nor retries exhausted.
NormalOutcomes == {"target_met", "slippage", "no_liquidity", "dust", "small_bid"}

\* C10: when the loop of a run completed normally, the retry-count field of
\* its record does not keep the value 1 written when the executor picked
\* the trade up; when the retries were exhausted without abort, the field
\* holds the retry count of the run.
C10_MarkerClearedOnCompletion ==
    /\ \A id \in Ids :
          outcomes[id] \in NormalOutcomes => db[id].botExcutedTime # 1
    /\ (run.phase = "done" /\ run.outcome = "retry_exhausted") =>
          db[run.id].botExcutedTime = run.retry

\* The latest iteration of the run submitted an order.
Submitted == run'.last # "none"

\* The lowest ask of the book the step fetched is above the price of the
\* trade by more than the tolerance.
AskBeyondTolerance ==
    /\ run'.order_book.asks # <<>>
    /\ \A i \in 1..Len(run'.order_book.asks) :
          RGt(RSub(run'.order_book.asks[i].price, MAX_PRICE_SLIPPAGE), run.price)

\* C11: in a buy run no order is submitted in an iteration whose lowest ask
\* price p has p - MAX_PRICE_SLIPPAGE > trade.price: that iteration leaves
\* the amounts of the run as they were and ends the run as skipped for
\* slippage with the record marked processed; the guard is evaluated on the
\* book fetched in the same iteration, so every submission of a buy run is
\* made against a book whose lowest ask is within the tolerance.
C11_SlippageGuard ==
    /\ [][(RunStepped /\ run.cond = "buy" /\ AskBeyondTolerance) =>
             /\ ~Submitted
             /\ run'.submitted = run.submitted /\ run'.remaining = run.remaining
             /\ run'.total = run.total /\ run'.retry = run.retry
             /\ run'.phase = "done" /\ run'.outcome = "slippage" /\ pc' # "run"
             /\ db'[run.id].bot = TRUE]_vars
    /\ [][(RunStepped /\ run.cond = "buy" /\ Submitted) => ~AskBeyondTolerance]_vars

\* C11 witness: a buy run that had an order accepted on one book and was
\* ended by the guard on the book of a later iteration, whose lowest ask is
\* 1 against a trade price of 1/2.
C11_Witness ==
    /\ run.cond = "buy" /\ run.phase = "done" /\ run.outcome = "slippage"
    /\ RGt(run.submitted, Zero) /\ RGt(run.remaining, Zero)
    /\ BestAsk(run.order_book.asks).price = One /\ run.price = Half
    /\ db[run.id].bot = TRUE

\* The side of the book the step fetched that the run trades against is
\* empty: asks for a buy, bids for a sell or a merge.
EmptySide ==
    IF run.cond = "buy" THEN run'.order_book.asks = <<>>
    ELSE run'.order_book.bids = <<>>

\* C12: in every buy, sell and merge run, an iteration whose fetched book
\* has an empty relevant side submits no order, leaves remaining, the
\* totals and retry as they were (the event is not counted as a retry) and
\* ends the run with the record marked processed; a run ended this way is
\* never in its loop again, so no order follows.
C12_NoLiquidityStops ==
    /\ [][(RunStepped /\ EmptySide) =>
             /\ ~Submitted
             /\ run'.submitted = run.submitted /\ run'.remaining = run.remaining
             /\ run'.total = run.total
             /\ run'.retry = run.retry /\ run'.streak = run.streak
             /\ run'.phase = "done" /\ run'.outcome = "no_liquidity" /\ pc' # "run"
             /\ db'[run.id].bot = TRUE]_vars
    /\ [](run.outcome = "no_liquidity" => run.phase = "done" /\ pc # "run")
    /\ [][\A id \in Ids : outcomes[id] = "no_liquidity" =>
             /\ outcomes'[id] = "no_liquidity"
             /\ ~(pc' = "run" /\ run'.id = id)]_vars

\* C12 witness: a merge run that had an order accepted and a later one fail,
\* and then found no bids: it ended there with retry still 1, tokens
\* remaining and the record processed.
C12_Witness ==
    /\ run.cond = "merge" /\ run.phase = "done" /\ run.outcome = "no_liquidity"
    /\ run.order_book.bids = <<>>
    /\ run.retry = 1 /\ RGt(run.submitted, Zero) /\ RGt(run.remaining, Zero)
    /\ db[run.id].bot = TRUE

\* remaining is below the minimum order size of the run as an attempt
\* starts: MIN_ORDER_SIZE_USD for a buy, MIN_ORDER_SIZE_TOKENS for a sell
\* or a merge.
BelowMinimumAtStart ==
    IF run.cond = "buy" THEN RLt(run.remaining, MIN_ORDER_SIZE_USD)
    ELSE RLt(run.remaining, MIN_ORDER_SIZE_TOKENS)

\* C13: in buy, sell and merge runs alike, an attempt that starts with
\* remaining below the minimum order size submits no order and ends the
\* loop as complete (neither aborted nor counted as a failure).
C13_DustStopsLoop ==
    [][(RunStepped /\ BelowMinimumAtStart) =>
          /\ ~Submitted
          /\ run'.phase = "done" /\ run'.outcome \in NormalOutcomes
          /\ run'.retry = run.retry /\ ~run'.abort]_vars

\* What the run was to trade is below the minimum before its loop: a buy
\* whose finalAmount is 0, a sell without a position or with a computed size
\* below MIN_ORDER_SIZE_TOKENS, a merge without a position or with one below
\* MIN_ORDER_SIZE_TOKENS.
BelowMinimumBeforeLoop ==
    CASE run.cond = "buy" -> run.target = Zero
      [] run.cond = "sell" -> RLt(run.computed, MIN_ORDER_SIZE_TOKENS)
      [] run.cond = "merge" -> RLt(run.myPosSize, MIN_ORDER_SIZE_TOKENS)
      [] OTHER -> FALSE

\* C14: a trade that is below the minimum before the loop starts (a buy
\* whose finalAmount is 0, a sell without a local position or with a size
\* below the minimum, a merge whose position is absent or below the
\* minimum) is skipped: its record is marked processed, no order book is
\* fetched, nothing is submitted and no ledger value is written; the step
\* that skips it changes nothing of the collection but the processed flag
\* and the pick-up mark of that record.
C14_SkippedBeforeLoop ==
    /\ [](BelowMinimumBeforeLoop <=> run.outcome = "skipped")
    /\ [](run.outcome = "skipped" =>
             /\ run.phase = "done" /\ pc # "run"
             /\ run.order_book = None
             /\ run.last = "none" /\ run.submitted = Zero /\ run.filled = Zero
             /\ db[run.id].bot = TRUE
             /\ \A id \in Ids : db[id].myBoughtSize = run.ledgerBefore[id])
    /\ [][(run'.outcome = "skipped" /\ run' # run) =>
             \A id \in Ids :
                /\ db'[id].myBoughtSize = db[id].myBoughtSize
                /\ id # run'.id => db'[id] = db[id]]_vars

\* C14 witness: a sell with a local position whose computed size is positive
\* and below the minimum, skipped while a tracked purchase is in the ledger.
C14_Witness ==
    /\ run.cond = "sell" /\ run.outcome = "skipped"
    /\ RGt(run.computed, Zero) /\ RGt(run.myPosSize, Zero)
    /\ RGt(run.totalTracked, Zero)
    /\ db[run.id].bot = TRUE

\* The ways an invocation of post_order ends.
EndOutcomes == NormalOutcomes \cup {"skipped", "retry_exhausted", "aborted"}

\* C15: every invocation of post_order for buy, sell or merge returns with
\* the processed flag of the originating record set, whichever way it ends:
\* skipped before the loop, no liquidity, slippage, dust, target met,
\* retries exhausted or aborted for funds; and the flag stays set.
C15_ProcessedFlagAlwaysSet ==
    /\ [](run.phase = "done" =>
             /\ run.outcome \in EndOutcomes
             /\ db[run.id].bot = TRUE)
    /\ [][(run'.phase = "done" /\ run' # run) =>
             /\ db'[run'.id].bot = TRUE
             /\ outcomes'[run'.id] = run'.outcome]_vars
    /\ [](\A id \in Ids : Terminal(id) =>
             outcomes[id] \in EndOutcomes /\ db[id].bot = TRUE)

\* C15 witness: two invocations have returned, one aborted for funds and one
\* ended by the slippage guard, and both records are marked processed.
C15_Witness ==
    \E a, b \in Ids :
        /\ Terminal(a) /\ Terminal(b)
        /\ outcomes[a] = "aborted" /\ outcomes[b] = "slippage"
        /\ db[a].bot = TRUE /\ db[b].bot = TRUE

ZeroOrWithin(amount, cfg) ==
    \/ amount = Zero
    \/ RGe(amount, cfg.minOrderSizeUSD) /\ RLe(amount, cfg.maxOrderSizeUSD)

\* C17: for every configuration with 0 < minOrderSizeUSD <= maxOrderSizeUSD
\* and every trader order size, balance and position value, the finalAmount
\* of calculate_order_size is 0 or lies in [minOrderSizeUSD,
\* maxOrderSizeUSD]: never strictly between 0 and the minimum, never above
\* the maximum; and belowMinimum is set only with a finalAmount of 0.
C17_FinalAmountWithinLimits ==
    (pc = "sized" /\ RGt(config.minOrderSizeUSD, Zero)
                  /\ RLe(config.minOrderSizeUSD, config.maxOrderSizeUSD)) =>
        /\ ZeroOrWithin(sizing.result.finalAmount, config)
        /\ sizing.result.belowMinimum => sizing.result.finalAmount = Zero

\* C17 witness: an amount of 0.99 that the balance step left strictly
\* between 0 and the minimum was returned as 0 with belowMinimum set; the
\* strategy alone asked for more than the maximum.
C17_Witness ==
    /\ pc = "sized"
    /\ sizing.availableBalance = One
    /\ RGt(sizing.result.baseAmount, config.maxOrderSizeUSD)
    /\ sizing.result.cappedByMax /\ sizing.result.reducedByBalance
    /\ sizing.result.belowMinimum /\ sizing.result.finalAmount = Zero

\* The amount of the call as it enters the balance step: after the
\* multiplier, the cap and the position limit.
EnteringBalanceStep ==
    ApplyMaxPositionSize(config,
        ApplyMaxOrderSize(config, StartCalculation(config, sizing.traderOrderSize)),
        sizing.currentPositionSize).finalAmount

\* C18: the finalAmount of calculate_order_size never exceeds 0.99 times the
\* available balance, and reducedByBalance is set exactly when the amount
\* entering the balance step (after multiplier, cap and position limit) was
\* greater than 0.99 times the balance; an amount of 50 with a balance of 40
\* gives 39.6 with reducedByBalance set.
C18_BalanceGuard ==
    pc = "sized" =>
        /\ RLe(sizing.result.finalAmount, RMul(sizing.availableBalance, <<99, 100>>))
        /\ sizing.result.reducedByBalance <=>
              RGt(EnteringBalanceStep, RMul(sizing.availableBalance, <<99, 100>>))
        /\ (EnteringBalanceStep = Int2Rat(50) /\ sizing.availableBalance = Int2Rat(40)) =>
              /\ sizing.result.finalAmount = <<198, 5>>
              /\ sizing.result.reducedByBalance

\* C18 witness: a fixed amount of 50 sized with a balance of 40 came back as
\* 39.6 with reducedByBalance set and no other limit applied.
C18_Witness ==
    /\ pc = "sized"
    /\ config.strategy = "FIXED" /\ EnteringBalanceStep = Int2Rat(50)
    /\ sizing.availableBalance = Int2Rat(40)
    /\ sizing.result.finalAmount = <<198, 5>>
    /\ sizing.result.reducedByBalance
    /\ ~sizing.result.cappedByMax /\ ~sizing.result.belowMinimum

\* The configuration has a value for the position limit.
PositionLimitSet == config.maxPositionSizeUSD # None

\* The configuration has a position limit that calculate_order_size applies:
\* a value other than 0.
PositionLimitApplied == ~Falsy(config.maxPositionSizeUSD)

\* maxPositionSizeUSD - currentPositionValueUSD
Headroom == RSub(config.maxPositionSizeUSD, sizing.currentPositionSize)

ExpectedBaseAmount ==
    CASE config.strategy = "PERCENTAGE" ->
            RDiv(RMul(sizing.traderOrderSize, config.copySize), Int2Rat(100))
      [] config.strategy = "FIXED" -> config.copySize
      [] config.strategy = "ADAPTIVE" ->
            RDiv(RMul(sizing.traderOrderSize,
                      calculate_adaptive_percent(config, sizing.traderOrderSize)),
                 Int2Rat(100))

\* The calculation as it enters the limit steps according to the claim: the
\* base amount times the multiplier resolved on the trader's order size.
ExpectedBeforeLimits ==
    [traderOrderSize |-> sizing.traderOrderSize,
     baseAmount |-> ExpectedBaseAmount,
     finalAmount |-> RMul(ExpectedBaseAmount,
                          get_trade_multiplier(config, sizing.traderOrderSize)),
     strategy |-> config.strategy,
     cappedByMax |-> FALSE, reducedByBalance |-> FALSE, belowMinimum |-> FALSE]

\* C20: the baseAmount reported by calculate_order_size is traderOrderSizeUSD
\* x copySize / 100 for PERCENTAGE, copySize for FIXED and traderOrderSizeUSD
\* x adaptivePercent / 100 for ADAPTIVE, whatever the multiplier, the limits,
\* the balance and the position; and the result is the one the limit steps
\* give for baseAmount times the multiplier resolved on traderOrderSizeUSD.
C20_BaseAmountAndMultiplier ==
    pc = "sized" =>
        /\ sizing.result.baseAmount = ExpectedBaseAmount
        /\ sizing.result.traderOrderSize = sizing.traderOrderSize
        /\ sizing.result =
              ApplyMinimum(config,
                  ApplyBalance(
                      ApplyMaxPositionSize(config,
                          ApplyMaxOrderSize(config, ExpectedBeforeLimits),
                          sizing.currentPositionSize),
                      sizing.availableBalance))

\* C20 witness: a PERCENTAGE configuration with tiers and a trader order of
\* 8 at 50%: the base amount 4 lies in the tier of multiplier 2, the order
\* size 8 in the tier of multiplier 1/2, and the amount returned is
\* 4 x 1/2 = 2.
C20_Witness ==
    /\ pc = "sized"
    /\ config.strategy = "PERCENTAGE" /\ config.copySize = Int2Rat(50)
    /\ sizing.traderOrderSize = Int2Rat(8)
    /\ sizing.result.baseAmount = Int2Rat(4)
    /\ get_trade_multiplier(config, Int2Rat(4)) = Int2Rat(2)
    /\ get_trade_multiplier(config, Int2Rat(8)) = Half
    /\ sizing.result.finalAmount = Int2Rat(2)

\* The threshold in force: adaptiveThreshold, 500 when it is not set.
Threshold ==
    IF Falsy(config.adaptiveThreshold) THEN Int2Rat(500) ELSE config.adaptiveThreshold

\* Both adaptive percents are present, by the test the configuration code
\* itself uses for presence (a value of 0 counts as absent).
AdaptivePercentsPresent ==
    ~Falsy(config.adaptiveMinPercent) /\ ~Falsy(config.adaptiveMaxPercent)

TierContains(i, size) ==
    /\ RGe(size, config.tieredMultipliers[i].min)
    /\ \/ config.tieredMultipliers[i].max = None
       \/ RLt(size, config.tieredMultipliers[i].max)

MatchingTiers(size) ==
    {i \in 1..Len(config.tieredMultipliers) : TierContains(i, size)}

\* The first of the matching tiers.
FirstMatching(size) ==
    CHOOSE i \in MatchingTiers(size) : \A j \in MatchingTiers(size) : i <= j

\* C22: with tiers configured the multiplier is that of the first tier, in
\* ascending order, with tier.min <= size and (tier.max infinite or size <
\* tier.max), and that of the last tier when no tier matches; with no tiers
\* it is the configured single multiplier, else 1. With tiers 0-10:2 and
\* 10-100:1, the sizes 5, 10 and 150 give 2, 1 and 1.
C22_TierResolution ==
    pc = "resolved" =>
        /\ (config.tieredMultipliers # <<>> /\ MatchingTiers(sizing.traderOrderSize) # {}) =>
              sizing.multiplier =
                 config.tieredMultipliers[FirstMatching(sizing.traderOrderSize)].multiplier
        /\ (config.tieredMultipliers # <<>> /\ MatchingTiers(sizing.traderOrderSize) = {}) =>
              sizing.multiplier =
                 config.tieredMultipliers[Len(config.tieredMultipliers)].multiplier
        /\ (config.tieredMultipliers = <<>> /\ config.tradeMultiplier # None) =>
              sizing.multiplier = config.tradeMultiplier
        /\ (config.tieredMultipliers = <<>> /\ config.tradeMultiplier = None) =>
              sizing.multiplier = One
        /\ config.tieredMultipliers =
              <<Tier(Zero, Int2Rat(10), Int2Rat(2)), Tier(Int2Rat(10), Int2Rat(100), One)>> =>
                 /\ sizing.traderOrderSize = Int2Rat(5) => sizing.multiplier = Int2Rat(2)
                 /\ sizing.traderOrderSize = Int2Rat(10) => sizing.multiplier = One
                 /\ sizing.traderOrderSize = Int2Rat(150) => sizing.multiplier = One

\* C22 witness: with tiers 0-10:2 and 10-100:1 and a single multiplier of 3
\* configured beside them, a size of 10, the upper bound of the first tier
\* and the lower bound of the second, was given the multiplier 1.
C22_Witness ==
    /\ pc = "resolved"
    /\ config.tieredMultipliers =
          <<Tier(Zero, Int2Rat(10), Int2Rat(2)), Tier(Int2Rat(10), Int2Rat(100), One)>>
    /\ config.tradeMultiplier = Int2Rat(3)
    /\ sizing.traderOrderSize = Int2Rat(10)
    /\ sizing.multiplier = One

\* The order size lies in a gap of the tier list: above the upper bound of
\* tier i, or at it, and below the lower bound of tier i + 1.
InGapAfter(i, size) ==
    /\ i < Len(config.tieredMultipliers)
    /\ config.tieredMultipliers[i].max # None
    /\ RGe(size, config.tieredMultipliers[i].max)
    /\ RLt(size, config.tieredMultipliers[i + 1].min)

\* C23: a size that lies in a gap between two tiers is given the multiplier
\* of the last tier whose min it satisfies, the nearest tier below it.
C23_GapTakesNearestBelow ==
    pc = "resolved" =>
        \A i \in 1..Len(config.tieredMultipliers) :
            InGapAfter(i, sizing.traderOrderSize) =>
                sizing.multiplier = config.tieredMultipliers[i].multiplier

\* C23, the divergent state: with tiers 0-5:2, 10-20:0.5 and 50+:3 a size of
\* 7, between the first and the second tier, was given the multiplier 3 of
\* the last tier.
C23_GapTakesLast ==
    /\ pc = "resolved"
    /\ config.tieredMultipliers =
          <<Tier(Zero, Int2Rat(5), Int2Rat(2)),
            Tier(Int2Rat(10), Int2Rat(20), <<1, 2>>),
            Tier(Int2Rat(50), None, Int2Rat(3))>>
    /\ sizing.traderOrderSize = Int2Rat(7)
    /\ sizing.multiplier = Int2Rat(3)

\* The configuration has been loaded; an order may have been sized with it.
ConfigLoaded == pc \in {"sizing", "sized"}

\* The tiers of the definitions of TIERED_MULTIPLIERS, in the order of the
\* text, when each definition is well formed.
TextTiers == parse_tier_defs(tier_defs_of(environ.TIERED_MULTIPLIERS), 1, <<>>)

\* The order of the tiers by min, ties in the order of the text.
StableOrder(tiers) ==
    CHOOSE p \in [1..Len(tiers) -> 1..Len(tiers)] :
        \A i, j \in 1..Len(tiers) :
            i < j => \/ RLt(tiers[p[i]].min, tiers[p[j]].min)
                     \/ tiers[p[i]].min = tiers[p[j]].min /\ p[i] < p[j]

Ordered(tiers) == [i \in 1..Len(tiers) |-> tiers[StableOrder(tiers)[i]]]

\* A tier that is not the last has no upper bound, or reaches beyond the
\* min of the next tier.
Defective(tiers) ==
    \E i \in 1..(Len(tiers) - 1) :
        tiers[i].max = None \/ RGt(tiers[i].max, tiers[i + 1].min)

\* Some tier ends before the next one begins.
HasGap(tiers) ==
    \E i \in 1..(Len(tiers) - 1) :
        tiers[i].max # None /\ RLt(tiers[i].max, tiers[i + 1].min)

\* Some order size lies in both ranges.
Overlapping(a, b) ==
    /\ a.max = None \/ RGt(a.max, b.min)
    /\ b.max = None \/ RGt(b.max, a.min)

\* The order sizes at, between and beyond the bounds of the tier texts.
ProbeSizes ==
    { Zero, Int2Rat(3), Int2Rat(5), Int2Rat(7), Int2Rat(10), Int2Rat(15),
      Int2Rat(20), Int2Rat(30), Int2Rat(50), Int2Rat(60) }

Containing(tiers, size) ==
    { i \in 1..Len(tiers) :
        RGe(size, tiers[i].min) /\ (tiers[i].max = None \/ RLt(size, tiers[i].max)) }

C24_WitnessRejected ==
    /\ pc = "ConfigurationError"
    /\ environ.TIERED_MULTIPLIERS =
          <<"10", "-", "20", ":", "1", ",", "5", "+", ":", "2", ",",
            "0", "-", "5", ":", "2">>

RangeText(tier_def) == SubSeq(tier_def, 1, find(tier_def, ":") - 1)
MultiplierText(tier_def) == SubSeq(tier_def, find(tier_def, ":") + 1, Len(tier_def))

\* The definition has no ':' or more than one.
LacksSingleColon(tier_def) ==
    Cardinality({i \in 1..Len(tier_def) : tier_def[i] = ":"}) # 1

\* The text after the ':' is not a number, or is a negative one.
BadMultiplier(tier_def) ==
    /\ ~LacksSingleColon(tier_def)
    /\ \/ float(MultiplierText(tier_def)) = ValueError
       \/ RLt(float(MultiplierText(tier_def)), Zero)

\* The range reads "a-b" at its k-th token, with numbers a and b.
BoundedAt(range_str, k) ==
    /\ range_str[k] = "-"
    /\ float(SubSeq(range_str, 1, k - 1)) # ValueError
    /\ float(SubSeq(range_str, k + 1, Len(range_str))) # ValueError

\* A bounded range whose max is not above its min.
MaxNotAboveMin(tier_def) ==
    /\ ~LacksSingleColon(tier_def)
    /\ \E k \in 1..Len(RangeText(tier_def)) :
          /\ BoundedAt(RangeText(tier_def), k)
          /\ RLe(float(SubSeq(RangeText(tier_def), k + 1, Len(RangeText(tier_def)))),
                 float(SubSeq(RangeText(tier_def), 1, k - 1)))

\* A range, bounded or not, whose min is negative.
NegativeMin(tier_def) ==
    /\ ~LacksSingleColon(tier_def)
    /\ \/ \E k \in 1..Len(RangeText(tier_def)) :
             /\ BoundedAt(RangeText(tier_def), k)
             /\ RLt(float(SubSeq(RangeText(tier_def), 1, k - 1)), Zero)
       \/ /\ RangeText(tier_def) # <<>>
          /\ RangeText(tier_def)[Len(RangeText(tier_def))] = "+"
          /\ float(SubSeq(RangeText(tier_def), 1, Len(RangeText(tier_def)) - 1))
                # ValueError
          /\ RLt(float(SubSeq(RangeText(tier_def), 1, Len(RangeText(tier_def)) - 1)),
                 Zero)

Malformed(tier_def) ==
    \/ LacksSingleColon(tier_def)
    \/ BadMultiplier(tier_def)
    \/ MaxNotAboveMin(tier_def)
    \/ NegativeMin(tier_def)

\* C25: when some definition of the tier text has no single ':', or a
\* multiplier that is not a number or is negative, or a bounded range with
\* max <= min, or a negative min, loading fails with an error and no tier
\* list, defaulted or partial, is returned: there is no configuration.
C25_MalformedTextFails ==
    (/\ pc # "loading"
     /\ environ.TIERED_MULTIPLIERS # None
     /\ \E i \in 1..Len(tier_defs_of(environ.TIERED_MULTIPLIERS)) :
           Malformed(tier_defs_of(environ.TIERED_MULTIPLIERS)[i]))
        => pc = "ConfigurationError" /\ config = None

\* C25 witness: the text "0-5:2,5-10:1,0-5:x", whose third definition has a
\* multiplier that is not a number, ended the load with an error.
C25_Witness ==
    /\ pc = "ConfigurationError"
    /\ config = None
    /\ environ.TIERED_MULTIPLIERS =
          <<"0", "-", "5", ":", "2", ",", "5", "-", "10", ":", "1", ",",
            "0", "-", "5", ":", "x">>

\* The environment with TRADE_MULTIPLIER set to another text, or not set.
WithTradeMultiplier(text) == [environ EXCEPT !.TRADE_MULTIPLIER = text]

\* The finalAmount of the call in sizing under the configuration loaded
\* from env.
FinalAmountUnder(env) ==
    calculate_order_size(parse_copy_strategy(env).config, sizing.traderOrderSize,
                         sizing.availableBalance,
                         sizing.currentPositionSize).finalAmount

\* C26: with tiered multipliers configured, the environments that differ
\* from this one only in TRADE_MULTIPLIER give the same finalAmount for the
\* same call, on the legacy COPY_PERCENTAGE path as on the other.
C26_SingleMultiplierIgnored ==
    (pc = "sized" /\ config.tieredMultipliers # <<>>) =>
        \A text \in {None, <<"1.0">>, <<"2">>} :
            FinalAmountUnder(WithTradeMultiplier(text)) = sizing.result.finalAmount

\* C26, the divergent state: COPY_PERCENTAGE=10, TIERED_MULTIPLIERS="0+:2"
\* and TRADE_MULTIPLIER=2 sized the copy of a $100 trade at $40, and the
\* same environment without TRADE_MULTIPLIER sizes it at $20.
C26_LegacyMultiplierCounted ==
    /\ pc = "sized"
    /\ environ = [NoSettings EXCEPT !.COPY_PERCENTAGE = <<"10">>,
                                    !.TRADE_MULTIPLIER = <<"2">>,
                                    !.TIERED_MULTIPLIERS = <<"0", "+", ":", "2">>]
    /\ config.copySize = Int2Rat(20)
    /\ sizing.traderOrderSize = Int2Rat(100)
    /\ sizing.result.finalAmount = Int2Rat(40)
    /\ FinalAmountUnder(WithTradeMultiplier(None)) = Int2Rat(20)

\* COPY_STRATEGY is set and names no member of CopyStrategy.
UnknownStrategy ==
    /\ environ.COPY_STRATEGY # None
    /\ \A name \in CopyStrategy : upper(environ.COPY_STRATEGY) # <<name>>

\* C27: an unknown strategy name is a fatal error of the load: the load of
\* an environment whose COPY_STRATEGY names no strategy ends with an error
\* and leaves no configuration, so no order is sized under it.
C27_UnknownStrategyFatal ==
    (pc # "loading" /\ UnknownStrategy) => ~ConfigLoaded /\ config = None

\* C27, the divergent state: COPY_STRATEGY=MARTINGALE was loaded as a
\* PERCENTAGE configuration of 10 percent, and the copy of a $100 trade was
\* sized at $10 under it.
C27_UnknownStrategySized ==
    /\ pc = "sized"
    /\ environ = [NoSettings EXCEPT !.COPY_STRATEGY = <<"MARTINGALE">>]
    /\ config.strategy = "PERCENTAGE"
    /\ config.copySize = Int2Rat(10)
    /\ sizing.traderOrderSize = Int2Rat(100)
    /\ sizing.result.finalAmount = Int2Rat(10)

\* The invariant of StrategyConfig.
ValidStrategyConfig(cfg) ==
    /\ RLe(cfg.minOrderSizeUSD, cfg.maxOrderSizeUSD)
    /\ cfg.strategy = "PERCENTAGE" => RLe(cfg.copySize, Int2Rat(100))
    /\ cfg.strategy = "ADAPTIVE" =>
          /\ ~Falsy(cfg.adaptiveMinPercent)
          /\ ~Falsy(cfg.adaptiveMaxPercent)
          /\ RLe(cfg.adaptiveMinPercent, cfg.adaptiveMaxPercent)

\* C28: every configuration the process has loaded, and every one an order
\* was sized with, has minOrderSizeUSD <= maxOrderSizeUSD, copySize <= 100
\* when the strategy is PERCENTAGE, and both adaptive percents with
\* adaptiveMinPercent <= adaptiveMaxPercent when it is ADAPTIVE.
C28_LoadedConfigValid ==
    ConfigLoaded => ValidStrategyConfig(config)

\* C28, the divergent state: COPY_STRATEGY=adaptive with
\* ADAPTIVE_MIN_PERCENT=80 and ADAPTIVE_MAX_PERCENT=5 was loaded, and the
\* copy of a $5 trade was sized under it.
C28_InvalidConfigSized ==
    /\ pc = "sized"
    /\ environ = [NoSettings EXCEPT !.COPY_STRATEGY = <<"adaptive">>,
                                    !.ADAPTIVE_MIN_PERCENT = <<"80">>,
                                    !.ADAPTIVE_MAX_PERCENT = <<"5">>]
    /\ config.strategy = "ADAPTIVE"
    /\ config.adaptiveMinPercent = Int2Rat(80)
    /\ config.adaptiveMaxPercent = Int2Rat(5)
    /\ sizing.traderOrderSize = Int2Rat(5)
    /\ sizing.result.finalAmount # None

\* A BUY whose usdcSize is below the minimum total.
SmallBuy(rec) ==
    rec.side = "BUY" /\ RLt(rec.usdcSize, TRADE_AGGREGATION_MIN_TOTAL_USD)

\* The trades of the groups of a buffer or of a list of ready groups.
MembersOf(groups) ==
    {id \in Ids : \E i \in 1..Len(groups) :
        \E j \in 1..Len(groups[i].trades) : groups[i].trades[j] = id}

\* The executor, with aggregation enabled, is at a trade that is a SELL or
\* is not below the minimum total, and takes it from the list.
TakesLargeOrSell ==
    /\ TRADE_AGGREGATION_ENABLED
    /\ pc = "trading"
    /\ trades # <<>>
    /\ ~SmallBuy(db[Head(trades)])
    /\ trades' # trades

\* C29: with aggregation enabled only BUY trades with usdcSize below the
\* minimum total are members of a group of the buffer; every SELL and every
\* BUY at or above the minimum is handed to post_order as the executor comes
\* to it, in the poll that read it, and the buffer is left as it was.
C29_OnlySmallBuysBuffered ==
    /\ [](\A id \in MembersOf(trade_aggregation_buffer) \cup MembersOf(ready_aggregations) :
             SmallBuy(db[id]))
    /\ []((TRADE_AGGREGATION_ENABLED /\ pc \in {"poll", "aggregated"}) => trades = <<>>)
    /\ [][TakesLargeOrSell =>
             /\ runs'[Head(trades)] = runs[Head(trades)] + 1
             /\ trade_aggregation_buffer' = trade_aggregation_buffer]_vars

\* C29 witness: of a BUY and a SELL of $0.50 each, both below the minimum
\* total, the BUY is in the buffer and has not been handed to post_order,
\* and the SELL has been handed to post_order and is in no group.
C29_Witness ==
    /\ TRADE_AGGREGATION_ENABLED
    /\ \E b, s \in Ids :
          /\ db[b].side = "BUY" /\ db[b].usdcSize = Half
          /\ b \in MembersOf(trade_aggregation_buffer) /\ runs[b] = 0
          /\ db[s].present /\ db[s].side = "SELL" /\ db[s].usdcSize = Half
          /\ runs[s] = 1
          /\ s \notin MembersOf(trade_aggregation_buffer)

\* The usdcSize, and the usdcSize * price, of the members of a group.
MemberSizes(agg) == [j \in 1..Len(agg.trades) |-> db[agg.trades[j]].usdcSize]
MemberValues(agg) ==
    [j \in 1..Len(agg.trades) |->
        RMul(db[agg.trades[j]].usdcSize, db[agg.trades[j]].price)]

\* The group is that of the trader, market, asset and side of each of its
\* members, and its totals are those of its members.
GroupOfItsMembers(agg) ==
    /\ agg.trades # <<>>
    /\ \A j \in 1..Len(agg.trades) :
          /\ agg.key = <<db[agg.trades[j]].userAddress, db[agg.trades[j]].conditionId,
                         db[agg.trades[j]].asset, db[agg.trades[j]].side>>
          /\ agg.userAddress = db[agg.trades[j]].userAddress
          /\ agg.conditionId = db[agg.trades[j]].conditionId
          /\ agg.asset = db[agg.trades[j]].asset
          /\ agg.side = db[agg.trades[j]].side
    /\ agg.totalUsdcSize = RSum(MemberSizes(agg))
    /\ RGt(RSum(MemberSizes(agg)), Zero) =>
          agg.averagePrice = RDiv(RSum(MemberValues(agg)), RSum(MemberSizes(agg)))
    /\ agg.firstTradeTime <= agg.lastTradeTime

\* The members are a trade of $30 at 0.5 and one of $20 at 0.6.
ThirtyAndTwenty(agg) ==
    /\ Len(agg.trades) = 2
    /\ db[agg.trades[1]].usdcSize = Int2Rat(30) /\ db[agg.trades[1]].price = Half
    /\ db[agg.trades[2]].usdcSize = Int2Rat(20) /\ db[agg.trades[2]].price = <<3, 5>>

\* A call has created the last group of the buffer: its two times are the
\* time of that call.
Created ==
    Len(trade_aggregation_buffer') > Len(trade_aggregation_buffer) =>
        /\ Len(trade_aggregation_buffer') = Len(trade_aggregation_buffer) + 1
        /\ Len(trade_aggregation_buffer'[Len(trade_aggregation_buffer')].trades) = 1
        /\ trade_aggregation_buffer'[Len(trade_aggregation_buffer')].firstTradeTime =
              trade_aggregation_buffer'[Len(trade_aggregation_buffer')].lastTradeTime

\* A call leaves the key and the firstTradeTime of every group as they were.
Kept ==
    \A i \in 1..Len(trade_aggregation_buffer) :
        /\ trade_aggregation_buffer'[i].key = trade_aggregation_buffer[i].key
        /\ trade_aggregation_buffer'[i].firstTradeTime =
              trade_aggregation_buffer[i].firstTradeTime
        /\ trade_aggregation_buffer'[i].lastTradeTime >=
              trade_aggregation_buffer[i].lastTradeTime

\* C30: after every sequence of calls of add_to_aggregation_buffer each
\* group of the buffer has the key (trader, conditionId, asset, side) of all
\* its members, a totalUsdcSize that is the sum of their usdcSize and an
\* averagePrice that is the sum of usdcSize * price over that total (50 and
\* 0.54 for $30 at 0.5 and $20 at 0.6), no two groups have the same key, and
\* firstTradeTime is the time of the call that created the group: a later
\* call changes lastTradeTime only.
C30_GroupTotals ==
    /\ [](\A i \in 1..Len(trade_aggregation_buffer) :
             /\ GroupOfItsMembers(trade_aggregation_buffer[i])
             /\ \A k \in 1..Len(trade_aggregation_buffer) :
                   trade_aggregation_buffer[k].key = trade_aggregation_buffer[i].key
                      => k = i
             /\ ThirtyAndTwenty(trade_aggregation_buffer[i]) =>
                   /\ trade_aggregation_buffer[i].totalUsdcSize = Int2Rat(50)
                   /\ trade_aggregation_buffer[i].averagePrice = <<27, 50>>)
    /\ [][Created /\ Kept]_vars

\* C30 witness: a group created at time 0 by a trade of $30 at 0.5 and
\* joined at time 1 by one of $20 at 0.6 has the total 50 and the average
\* 0.54, beside a group of another trader's trade in the same asset.
C30_Witness ==
    /\ pc = "admitting"
    /\ Len(trade_aggregation_buffer) = 2
    /\ ThirtyAndTwenty(trade_aggregation_buffer[1])
    /\ trade_aggregation_buffer[1].totalUsdcSize = Int2Rat(50)
    /\ trade_aggregation_buffer[1].averagePrice = <<27, 50>>
    /\ trade_aggregation_buffer[1].firstTradeTime = 0
    /\ trade_aggregation_buffer[1].lastTradeTime = 1
    /\ trade_aggregation_buffer[2].userAddress = "trader2"
    /\ trade_aggregation_buffer[2].asset = trade_aggregation_buffer[1].asset


\* The window of a group has passed at the time now.
WindowElapsed(agg, now) == now - agg.firstTradeTime >= window_ms

\* A group of the key of agg is in the buffer buf.
Buffered(buf, agg) == \E j \in 1..Len(buf) : buf[j].key = agg.key

\* Every member of the group is marked processed in d.
AllProcessed(d, agg) == \A j \in 1..Len(agg.trades) : d[agg.trades[j]].bot

\* The group is among the groups returned for execution.
Returned_(ready, agg) == \E j \in 1..Len(ready) : ready[j] = agg

\* C31: a call of get_ready_aggregated_trades removes from the buffer
\* exactly the groups whose window (measured from firstTradeTime) has passed
\* at the time it reads, each of them returned or discarded, and leaves the
\* other groups as they were; after the call no group of the buffer is
\* overdue, so a group leaves at the first call at or after the end of its
\* window; and an admit leaves the firstTradeTime of every group alone.
C31_DrainsElapsedOnly ==
    /\ [](pc = "drained" =>
            \A i \in 1..Len(trade_aggregation_buffer) :
                ~WindowElapsed(trade_aggregation_buffer[i], clock))
    /\ [][pc' = "drained" =>
            /\ \A i \in 1..Len(trade_aggregation_buffer) :
                  /\ WindowElapsed(trade_aggregation_buffer[i], clock') <=>
                        ~Buffered(trade_aggregation_buffer', trade_aggregation_buffer[i])
                  /\ WindowElapsed(trade_aggregation_buffer[i], clock') =>
                        \/ Returned_(ready_aggregations', trade_aggregation_buffer[i])
                        \/ AllProcessed(db', trade_aggregation_buffer[i])
                  /\ ~WindowElapsed(trade_aggregation_buffer[i], clock') =>
                        \E j \in 1..Len(trade_aggregation_buffer') :
                            trade_aggregation_buffer'[j] = trade_aggregation_buffer[i]
            /\ Len(trade_aggregation_buffer') <= Len(trade_aggregation_buffer)]_vars
    /\ [][pc' = "admitting" =>
            \A i \in 1..Len(trade_aggregation_buffer) :
                /\ trade_aggregation_buffer'[i].key = trade_aggregation_buffer[i].key
                /\ trade_aggregation_buffer'[i].firstTradeTime =
                      trade_aggregation_buffer[i].firstTradeTime]_vars

\* A call has returned a group that was admitted to during its window, has
\* discarded another and has left a third in the buffer.
C31_Witness ==
    /\ pc = "drained"
    /\ trade_aggregation_buffer # <<>>
    /\ \E j \in 1..Len(ready_aggregations) :
          ready_aggregations[j].lastTradeTime > ready_aggregations[j].firstTradeTime
    /\ \E id \in Ids : db[id].bot


\* A call of get_ready_aggregated_trades by the executor.
DrainStep == pc = "trading" /\ pc' = "aggregated"

\* do_aggregated_trading hands a group to post_order.
ExecuteStep == pc = "aggregated" /\ runs' # runs

\* A trade of a group that was discarded: marked processed and never picked
\* up.
IsDiscarded(rec) ==
    rec.present /\ IsAggregated(rec) /\ rec.bot /\ rec.botExcutedTime = 0

MemberIds(agg) == {agg.trades[j] : j \in 1..Len(agg.trades)}

\* C35: a trade record is a member of a group of the buffer at most once,
\* and the totalUsdcSize of a group is the sum of usdcSize over the distinct
\* records among its members.
C35_AdmittedOnce ==
    \A i \in 1..Len(trade_aggregation_buffer) :
        /\ Cardinality(MemberIds(trade_aggregation_buffer[i])) =
              Len(trade_aggregation_buffer[i].trades)
        /\ trade_aggregation_buffer[i].totalUsdcSize =
              RSum([id \in Ids |->
                      IF id \in MemberIds(trade_aggregation_buffer[i])
                      THEN db[id].usdcSize ELSE Zero])


\* C36: every trade record admitted to the buffer ends marked processed:
\* once the executor has finished the iteration in which the group of the
\* record was drained and, if executed, its run has ended, the record has
\* bot = TRUE, whichever member of the group it is.
C36_MembersProcessed ==
    (TRADE_AGGREGATION_ENABLED /\ pc = "poll") =>
        \A id \in Ids :
            (db[id].present /\ IsAggregated(db[id]) /\ db[id].botExcutedTime = 1) =>
                db[id].bot


\* post_order has been entered and has not returned.
InProgress(r) == r.phase = "loop"

\* C33: at most one run of post_order is in progress: post_order is entered,
\* for a trade or for a group, only when the run before it has returned;
\* while a run is in progress the executor is inside it and every step that
\* changes the run (a book fetch and a submission) belongs to that run,
\* whatever the monitor stores in the meantime.
C33_OneRunAtATime ==
    /\ [](InProgress(run) <=> pc = "run")
    /\ [][runs' # runs => ~InProgress(run)]_vars
    /\ [][(InProgress(run) /\ run' # run) =>
            /\ run'.id = run.id
            /\ runs' = runs
            /\ trades' = trades
            /\ ready_aggregations' = ready_aggregations]_vars

\* A run is in progress while a trade that the monitor stored after the poll
\* waits unread.
C33_Witness ==
    /\ pc = "run" /\ InProgress(run) /\ trades = <<>>
    /\ \E id \in Ids : id # run.id /\ IsUnprocessed(db[id])


\* The executor loop has returned, or the process has ended.
ExecutorGone == pc \in {"stopped", "exited"}

\* The loop of the executor returns only between runs.
LoopExitsBetweenRuns == pc = "stopped" => ~InProgress(run)

LedgerTotal(ledger) ==
    RSum([id \in Ids |->
            IF db[id].present /\ db[id].side = "BUY" /\ ledger[id] # None
            THEN ledger[id] ELSE Zero])

\* The ledger of the collection as it is now.
Ledger == [id \in Ids |-> db[id].myBoughtSize]

\* The run is a SELL that has returned and that started from a position
\* made of the tokens the ledger then recorded.
SellFromTrackedPosition ==
    /\ run.cond = "sell" /\ run.phase = "done"
    /\ run.myPosSize = LedgerTotal(run.ledgerBefore)

\* C37: the ledger never exceeds what is held: after a SELL run that
\* followed BUY runs of one or of several traders, the sum of myBoughtSize
\* over all BUY records of the asset is at most the tokens those BUY runs
\* acquired minus the tokens the SELL run sold.
C37_LedgerWithinHoldings ==
    SellFromTrackedPosition =>
        RLe(LedgerTotal(Ledger), RSub(LedgerTotal(run.ledgerBefore), run.total))

\* The same for the BUY records of one trader.
LedgerWithinHoldingsOfOneTrader ==
    (SellFromTrackedPosition /\ \A id \in Ids : db[id].userAddress = run.userAddress) =>
        RLe(LedgerTotal(Ledger), RSub(LedgerTotal(run.ledgerBefore), run.total))


\* A SELL run that entered its loop and has returned without being aborted
\* for funds, running out of retries or finding no bids.
SellRunEndedOtherwise ==
    /\ run.cond = "sell" /\ run.phase = "done"
    /\ run.outcome \notin {"skipped", "aborted", "retry_exhausted", "no_liquidity"}

\* C40: a SELL run that is neither aborted, nor out of retries, nor faced
\* with an empty bid side ends only with remaining at 0 or below
\* MIN_ORDER_SIZE_TOKENS; a best bid smaller than the minimum does not end
\* it while remaining is at or above the minimum.
C40_SellEndsOnlyWhenSold ==
    SellRunEndedOtherwise =>
        (run.remaining = Zero \/ RLt(run.remaining, MIN_ORDER_SIZE_TOKENS))


\* The sum of the contributing entries as they are now.
TrackedNow ==
    RSum([id \in Ids |-> IF Contributed(id) THEN db[id].myBoughtSize ELSE Zero])

\* The run is a SELL that has returned.
SellRunEnded == run.cond = "sell" /\ run.phase = "done"

\* C39: a SELL run leaves every ledger entry non-negative and no greater
\* than it was; after a partial sell (0 < sold < 0.99 * tracked) the
\* contributing entries add up to tracked - sold; a run that sold nothing
\* leaves every entry as it was.
C39_LedgerConservative ==
    SellRunEnded =>
        /\ \A id \in Ids :
              IF run.ledgerBefore[id] = None
              THEN db[id].myBoughtSize = None
              ELSE /\ RGe(db[id].myBoughtSize, Zero)
                   /\ RLe(db[id].myBoughtSize, run.ledgerBefore[id])
        /\ (RGt(run.total, Zero) /\ RLt(run.total, RMul(<<99, 100>>, TrackedBefore))) =>
              TrackedNow = RSub(TrackedBefore, run.total)
        /\ run.total = Zero =>
              \A id \in Ids : db[id].myBoughtSize = run.ledgerBefore[id]

\* A SELL run sold a part of the tokens tracked by two entries.
C39_Witness ==
    /\ SellRunEnded
    /\ Cardinality(Contributors) = 2
    /\ RGt(run.total, Zero)
    /\ RLt(run.total, RMul(<<99, 100>>, TrackedBefore))
    /\ RGt(TrackedNow, Zero)


\* The record s is a SELL observed after the BUY b of the same trader and
\* asset (the monitor stores records in the order it observes them).
SellAfterBuy(b, s) ==
    /\ b < s
    /\ db[b].present /\ db[b].side = "BUY"
    /\ db[s].present /\ db[s].side = "SELL"
    /\ db[b].userAddress = db[s].userAddress
    /\ db[b].asset = db[s].asset

\* post_order has been entered for every SELL only after the BUYs observed
\* before it were picked up or marked processed.
InObservedOrder ==
    \A b, s \in Ids :
        (SellAfterBuy(b, s) /\ runs[s] > 0) => ~IsUnprocessed(db[b])

\* C38: with aggregation enabled, trades of one trader and asset are
\* executed in the order observed: the run of a SELL observed after a BUY
\* does not start while that BUY is neither executed nor discarded.
C38_ObservedOrder == TRADE_AGGREGATION_ENABLED => InObservedOrder

\* The same without aggregation.
ObservedOrderWithoutAggregation == ~TRADE_AGGREGATION_ENABLED => InObservedOrder

====
